---- MODULE Spec2Model ----
(***************************************************************************)
(* Rating and ranking engine of or-tennis-data (src/generate_site.py).     *)
(*                                                                         *)
(* One (season, gender) partition of build_rankings is modelled.  Numbers  *)
(* the source keeps as floats are kept exact: flight weights and Power     *)
(* Index thresholds in hundredths, ratings as fractions <<num, den>>.      *)
(*                                                                         *)
(* Spec      : the ranking assembler (baseline sort, league ranks, Phase 1 *)
(*             league bubble, Phase 2 adjacent swap, output, class ranks)  *)
(*             over every Power Index, league and season file content      *)
(*             within the bounds, all schools of one classification.       *)
(* SpecClass : the same steps over every classification.                   *)
(* SpecRating: the rating passes (season files read in any order, WP and   *)
(*             FWS, the OWP pass, the OOWP/APR/Power Index pass, baseline) *)
(*             over every choice of season files within the bounds.        *)
(* SpecSeries    : Spec with pairs of schools meeting up to twice.         *)
(* SpecLeague    : Spec with one school more, for league ranks far apart.  *)
(* SpecPartitions: the assembler over three partitions in a row.           *)
(* SpecScenarioA : the rating passes on one dual meet won 8-0.             *)
(* SpecRecords   : the rating passes over season records with and without  *)
(*                 a meets list.                                           *)
(* SpecDual      : is_dual_match on every meet within the bounds.          *)
(* SpecCircle    : would_create_circle, one loop iteration per step.       *)
(* SpecSplit     : Spec over series of equal wins and losses, tied meets   *)
(*                 included.                                               *)
(* SpecFwsPlus   : the FWS+ pass over one class group.                     *)
(* SpecSpider    : spider_schools (src/spider_schools.py), one school of   *)
(*                 the queue per step.                                     *)
(***************************************************************************)
EXTENDS Integers, Sequences, FiniteSets, TLC

(***************************************************************************)
(* Bounds of the model.                                                    *)
(***************************************************************************)
NumTeams == 3
MaxPI == 2
NumLeagues == 1
NumClasses == 2
\* meets in one season file of the rating passes
MaxMeets == 2
\* entries of one class group and flights played by one school, for FWS+
MaxGroup == 3
MaxFlights == 3

(***************************************************************************)
(* Program constants.                                                      *)
(***************************************************************************)
\* H2H_THRESHOLD = 0.02, in hundredths of Power Index
H2H_THRESHOLD == 2
H2H_LEAGUE_RANK_THRESHOLD == 2
\* the value None of a score that was not found
NoScore == -1
\* info.get('league', '') of a school without a league
NoLeague == 0

Leagues == 0..NumLeagues
Classes == 1..NumClasses

VARIABLES
  pc,                 \* the step build_rankings is at
  power_index,        \* stats['power_index'] of each ranked school
  league,             \* school_info[id]['league']
  classification,     \* school_info[id]['classification']
  raw_data_cache,     \* raw_data_cache[year][gender][id]['meets']
  ranked,             \* the list ranked (school ids; stats are looked up)
  league_groups,      \* {league: [school_id, ...]} in insertion order
  school_league_rank, \* {school_id: league_rank}
  league_h2h,         \* Phase 1: the items of league_h2h of the current league
  h2h_swaps,          \* [(winner_id, loser_id, wins, losses, reason)]
  swapped_pairs,      \* set of (winner_id, loser_id)
  rejected,           \* the proposals would_create_circle answered True to
  li,                 \* Phase 1: index of the league being processed
  k,                  \* Phase 1: index of the league_h2h item being processed
                      \* (0: the league's items are not collected yet)
  i,                  \* Phase 2: the loop variable i
  output,             \* the list output
  files,              \* the season files of the partition on disk
  school_data,        \* school_data[year][gender]: {school_id: stats}
  order,              \* the keys of school_data in insertion order
  si,                 \* OWP and OOWP passes: position in order
  unset_read,         \* a pass read a rating that was not written yet
  year,               \* the partition the assembler is at (index in partitions)
  search_stack,       \* would_create_circle: the list stack
  search_visited,     \* would_create_circle: the set visited
  cache_files,        \* spider_schools: the schools with a file in CACHE_DIR
  spider_queue,       \* spider_schools: the deque queue (school ids)
  spider_visited,     \* spider_schools: the set visited
  discovered_schools, \* spider_schools: the keys of discovered_schools
  api_requests,       \* spider_schools: the counter api_requests
  events,             \* spider_schools: the API requests issued and the
                      \* sleeps taken, in order
  partitions          \* the inputs of the partitions in the order of
                      \* sorted(school_data.keys()); <<>> in a run of one
                      \* partition, whose input is in power_index and
                      \* raw_data_cache from the start

vars == <<pc, power_index, league, classification, raw_data_cache, ranked,
          league_groups, school_league_rank, league_h2h, h2h_swaps, swapped_pairs,
          rejected, li, k, i,
          output, files, school_data, order, si, unset_read, year,
          search_stack, search_visited, cache_files, spider_queue,
          spider_visited, discovered_schools, api_requests, events, partitions>>

\* what the rating passes write
ratingVars == <<files, school_data, order, si, unset_read>>

\* the loop of would_create_circle
searchVars == <<search_stack, search_visited>>

\* the state of spider_schools
spiderVars == <<cache_files, spider_queue, spider_visited, discovered_schools,
                api_requests, events>>

\* the loop over the partitions
partitionVars == <<year, partitions, searchVars, spiderVars>>

\* spider_schools is not running
SpiderAtRest ==
  /\ cache_files = {}
  /\ spider_queue = <<>>
  /\ spider_visited = {}
  /\ discovered_schools = {}
  /\ api_requests = 0
  /\ events = <<>>

\* what the ranking assembler only reads while it is at one partition
inputVars == <<power_index, league, classification, raw_data_cache, ratingVars,
               partitionVars>>

\* what the rating passes leave alone
assemblerVars == <<power_index, league, classification, league_groups,
                   school_league_rank, league_h2h, h2h_swaps, swapped_pairs,
                   rejected, li, k, i, output, partitionVars>>

\* the keys of school_data[year][gender]: the schools with data, numbered in
\* the order their files are read
Schools == DOMAIN power_index

(***************************************************************************)
(* Helpers on sequences.                                                   *)
(***************************************************************************)
Max(S) == CHOOSE x \in S : \A y \in S : y <= x

Min(S) == CHOOSE x \in S : \A y \in S : x <= y

RECURSIVE SetToSeq(_)
SetToSeq(S) ==
  IF S = {} THEN <<>> ELSE LET x == Min(S) IN <<x>> \o SetToSeq(S \ {x})

RECURSIVE Concat(_)
Concat(ss) == IF ss = <<>> THEN <<>> ELSE Head(ss) \o Concat(Tail(ss))

Range(s) == {s[j] : j \in DOMAIN s}

IndexOf(s, x) == CHOOSE j \in DOMAIN s : s[j] = x

(***************************************************************************)
(* Season files.  A meet is                                                *)
(*   [title, winners, losers, matches |-> [Singles, Doubles]]              *)
(* with winners/losers lists of [id, score] and each flight                *)
(*   [flight, matchTeams |-> list of [players, isWinner]].                 *)
(* title is the set of the marker substrings the title string contains.    *)
(***************************************************************************)
Flight(fl, wplayer, lplayer) ==
  [flight |-> fl,
   matchTeams |-> << [players |-> <<wplayer>>, isWinner |-> TRUE],
                     [players |-> <<lplayer>>, isWinner |-> FALSE] >>]

\* a dual meet won by w over l, score 1-0, its only flight (Singles 1) won by w
WonMeet(w, l) ==
  [title |-> {},
   winners |-> << [id |-> w, score |-> 1] >>,
   losers |-> << [id |-> l, score |-> 0] >>,
   matches |-> [Singles |-> << Flight("1", w, l) >>, Doubles |-> <<>>]]

\* a dual meet won by w over l, score 2-1, flights Singles 1 and Doubles 2
\* won by w
SeriesMeet(w, l) ==
  [title |-> {},
   winners |-> << [id |-> w, score |-> 2] >>,
   losers |-> << [id |-> l, score |-> 1] >>,
   matches |-> [Singles |-> << Flight("1", w, l) >>,
                Doubles |-> << Flight("2", w, l) >>]]

\* a dual meet that ended 1-1, w listed as its winner: Singles 1 won by w,
\* Doubles 2 won by l
TiedMeet(w, l) ==
  [title |-> {},
   winners |-> << [id |-> w, score |-> 1] >>,
   losers |-> << [id |-> l, score |-> 1] >>,
   matches |-> [Singles |-> << Flight("1", w, l) >>,
                Doubles |-> << Flight("2", l, w) >>]]

\* What the season files hold about the meeting of two schools a < b:
\*   none     : no meet;
\*   first    : one meet, won by a, in both files;
\*   second   : one meet, won by b, in both files;
\*   disputed : one meet in both files, each file with its own school as the
\*              winner (every file is a download of its own; build_rankings
\*              never compares two files);
\*   split    : two meets in both files, the first won by a (WonMeet), the
\*              second won by b with more flight weight (SeriesMeet).
\*   even     : two meets in both files, one won by each school, with the
\*              same flights (WonMeet twice);
\*   tied     : one meet in both files that ended 1-1, b with more flight
\*              weight (TiedMeet).
PairKinds == {"none", "first", "second", "disputed"}

SeriesKinds == {"none", "first", "second", "split"}

AgreedKinds == {"none", "first", "second"}

SplitKinds == {"none", "first", "split", "even", "tied"}

UnorderedPairs(n) == {p \in (1..n) \X (1..n) : p[1] < p[2]}

KindOf(pv, a, b) == IF a < b THEN pv[<<a, b>>] ELSE pv[<<b, a>>]

\* the meets the file of school s holds against opponent o
MeetsFor(pv, s, o) ==
  LET kind == KindOf(pv, s, o)
  IN CASE kind = "none" -> <<>>
       [] kind = "first" -> IF s < o THEN << WonMeet(s, o) >> ELSE << WonMeet(o, s) >>
       [] kind = "second" -> IF s < o THEN << WonMeet(o, s) >> ELSE << WonMeet(s, o) >>
       [] kind = "disputed" -> << WonMeet(s, o) >>
       [] kind = "split" -> IF s < o THEN << WonMeet(s, o), SeriesMeet(o, s) >>
                            ELSE << WonMeet(o, s), SeriesMeet(s, o) >>
       [] kind = "even" -> IF s < o THEN << WonMeet(s, o), WonMeet(o, s) >>
                           ELSE << WonMeet(o, s), WonMeet(s, o) >>
       [] kind = "tied" -> IF s < o THEN << TiedMeet(o, s) >> ELSE << TiedMeet(s, o) >>

\* the meets of school s among n schools, its opponents in id order
FileOf(pv, n, s) ==
  Concat([o \in 1..n |-> IF o = s THEN <<>> ELSE MeetsFor(pv, s, o)])

(***************************************************************************)
(* is_dual_match                                                           *)
(***************************************************************************)
is_dual_match(meet) ==
  IF "State Championship" \in meet.title THEN FALSE
  ELSE IF "Event" \in meet.title /\ "." \in meet.title THEN FALSE
  ELSE IF "District" \in meet.title THEN FALSE
  ELSE IF "Tournament" \in meet.title THEN FALSE
  ELSE Len(meet.winners) = 1 /\ Len(meet.losers) = 1

(***************************************************************************)
(* FLIGHT_WEIGHTS and get_flight_weight, in hundredths.                    *)
(***************************************************************************)
\* every flight at the weight of flight 1
get_flight_weight_flat(match_type, flight) == 100

get_flight_weight(match_type, flight) ==
  CASE match_type = "Singles" /\ flight = "1" -> 100
    [] match_type = "Singles" /\ flight = "2" -> 75
    [] match_type = "Singles" /\ flight = "3" -> 25
    [] match_type = "Singles" /\ flight = "4" -> 10
    [] match_type = "Doubles" /\ flight = "1" -> 100
    [] match_type = "Doubles" /\ flight = "2" -> 50
    [] match_type = "Doubles" /\ flight = "3" -> 25
    [] match_type = "Doubles" /\ flight = "4" -> 10
    [] OTHER -> 10

RECURSIVE SeqSum(_)
SeqSum(s) == IF s = <<>> THEN 0 ELSE Head(s) + SeqSum(Tail(s))

(***************************************************************************)
(* get_head_to_head_detailed                                               *)
(***************************************************************************)
\* the score the two loops over winners, then losers, leave in a variable
\* that is assigned at every entry whose position is in idx
LastScore(entries, idx) ==
  IF idx = {} THEN NoScore ELSE entries[Max(idx)].score

\* the weight one flight adds to the sum of school sid (never to school1's
\* and school2's both: the elif of line 500)
H2HFlightFws(match_type, match, sid, school1_id) ==
  LET weight == get_flight_weight(match_type, match.flight)
      hit(team) == /\ team.isWinner
                   /\ team.players # <<>>
                   /\ team.players[1] = sid
                   /\ (sid = school1_id \/ team.players[1] # school1_id)
  IN weight * Cardinality({j \in DOMAIN match.matchTeams : hit(match.matchTeams[j])})

H2HMeetFws(meet, sid, school1_id) ==
  SeqSum([j \in DOMAIN meet.matches.Singles |->
            H2HFlightFws("Singles", meet.matches.Singles[j], sid, school1_id)])
  + SeqSum([j \in DOMAIN meet.matches.Doubles |->
            H2HFlightFws("Doubles", meet.matches.Doubles[j], sid, school1_id)])

\* one entry of results['matches'], or <<>> when the meet is not counted
H2HMatch(meet, school1_id, school2_id) ==
  LET entries == meet.winners \o meet.losers
      s1(e) == e.id = school1_id
      s2(e) == e.id # school1_id /\ e.id = school2_id
      school1_score == LastScore(entries, {j \in DOMAIN entries : s1(entries[j])})
      school2_score == LastScore(entries, {j \in DOMAIN entries : s2(entries[j])})
      is_vs_school2 == \E j \in DOMAIN entries : s2(entries[j])
  IN IF is_dual_match(meet) /\ is_vs_school2
        /\ school1_score # NoScore /\ school2_score # NoScore
     THEN << [result |-> IF school1_score > school2_score THEN "win"
                         ELSE IF school1_score < school2_score THEN "loss"
                         ELSE "tie",
              fws1 |-> H2HMeetFws(meet, school1_id, school1_id),
              fws2 |-> H2HMeetFws(meet, school2_id, school1_id)] >>
     ELSE <<>>

get_head_to_head_detailed(school1_meets, school1_id, school2_id) ==
  LET matches == Concat([j \in DOMAIN school1_meets |->
                           H2HMatch(school1_meets[j], school1_id, school2_id)])
      count(r) == Cardinality({j \in DOMAIN matches : matches[j].result = r})
  IN [wins |-> count("win"), losses |-> count("loss"), ties |-> count("tie"),
      matches |-> matches]

(***************************************************************************)
(* Baseline: sorted(items, key=power_index, reverse=True).  The sort is    *)
(* stable, so schools of equal Power Index keep the order in which their   *)
(* files were read into school_data; schools are numbered in that order.   *)
(***************************************************************************)
\* InsertDesc with the comparison turned around: an ascending sort
InsertDesc_ascending(sorted, x, key) ==
  LET p == Cardinality({j \in DOMAIN sorted : key[sorted[j]] <= key[x]})
  IN SubSeq(sorted, 1, p) \o <<x>> \o SubSeq(sorted, p + 1, Len(sorted))

InsertDesc(sorted, x, key) ==
  LET p == Cardinality({j \in DOMAIN sorted : key[sorted[j]] >= key[x]})
  IN SubSeq(sorted, 1, p) \o <<x>> \o SubSeq(sorted, p + 1, Len(sorted))

RECURSIVE SortedDesc(_, _)
SortedDesc(items, key) ==
  IF items = <<>> THEN <<>>
  ELSE InsertDesc(SortedDesc(SubSeq(items, 1, Len(items) - 1), key),
                  items[Len(items)], key)

InitialSort == SortedDesc([t \in 1..Cardinality(Schools) |-> t], power_index)

(***************************************************************************)
(* league_groups and school_league_rank (lines 778-792)                    *)
(***************************************************************************)
RECURSIVE FirstSeen(_)
FirstSeen(s) ==
  IF s = <<>> THEN <<>>
  ELSE LET front == FirstSeen(SubSeq(s, 1, Len(s) - 1))
           x == s[Len(s)]
       IN IF x \in Range(front) THEN front ELSE Append(front, x)

InLeague(lg) == [t \in Schools |-> league[t] = lg]

Filter(s, keep) == Concat([j \in DOMAIN s |-> IF keep[s[j]] THEN <<s[j]>> ELSE <<>>])

HasLeague == [t \in Schools |-> league[t] # NoLeague]

LeagueGroups(rk) ==
  LET names == FirstSeen([j \in DOMAIN Filter(rk, HasLeague) |->
                            league[Filter(rk, HasLeague)[j]]])
  IN [j \in DOMAIN names |->
        [league |-> names[j], teams |-> Filter(rk, InLeague(names[j]))]]

SchoolLeagueRank(groups) ==
  [t \in {u \in Schools : league[u] # NoLeague} |->
     LET g == CHOOSE j \in DOMAIN groups : groups[j].league = league[t]
     IN IndexOf(groups[g].teams, t)]

\* school_league_rank.get(school_id, 0)
LeagueRankOf(t) ==
  IF t \in DOMAIN school_league_rank THEN school_league_rank[t] ELSE 0

(***************************************************************************)
(* would_create_circle (lines 800-822)                                     *)
(***************************************************************************)
BeatGraph(new_winner, new_loser, existing_swaps) ==
  [t \in Schools |->
     {existing_swaps[j].loser : j \in {n \in DOMAIN existing_swaps :
                                         existing_swaps[n].winner = t}}
     \cup (IF t = new_winner THEN {new_loser} ELSE {})]

RECURSIVE CircleSearch(_, _, _, _)
CircleSearch(stack, visited, beat_graph, new_winner) ==
  IF stack = <<>> THEN FALSE
  ELSE LET current == stack[Len(stack)]
           rest == SubSeq(stack, 1, Len(stack) - 1)
       IN IF current = new_winner THEN TRUE
          ELSE IF current \in visited
               THEN CircleSearch(rest, visited, beat_graph, new_winner)
               ELSE CircleSearch(rest \o SetToSeq(beat_graph[current]),
                                 visited \cup {current}, beat_graph, new_winner)

\* would_create_circle never finding a path
would_create_circle_never(new_winner, new_loser, existing_swaps) == FALSE

would_create_circle(new_winner, new_loser, existing_swaps) ==
  CircleSearch(<<new_loser>>, {},
               BeatGraph(new_winner, new_loser, existing_swaps), new_winner)

(***************************************************************************)
(* Phase 1 (lines 824-874)                                                 *)
(***************************************************************************)
H2HOf(school_id, other_id) ==
  get_head_to_head_detailed(raw_data_cache[school_id], school_id, other_id)

\* the items of league_h2h, in insertion order
LeagueH2H(teams) ==
  Concat([a \in DOMAIN teams |->
    Concat([b \in DOMAIN teams |->
      IF teams[a] = teams[b] THEN <<>>
      ELSE LET h2h_detail == H2HOf(teams[a], teams[b])
           IN IF h2h_detail.wins > 0 \/ h2h_detail.losses > 0
              THEN << [winner_id |-> teams[a], loser_id |-> teams[b],
                       wins |-> h2h_detail.wins, losses |-> h2h_detail.losses] >>
              ELSE <<>>])])

\* the school at b written over the school at a
SwapAt_overwrite(rk, a, b) == [rk EXCEPT ![a] = rk[b]]

SwapAt(rk, a, b) == [rk EXCEPT ![a] = rk[b], ![b] = rk[a]]

\* the winner and the loser exchange their positions
BubbleUp_exchange(rk, current_pos, loser_pos) == SwapAt(rk, current_pos, loser_pos)

\* the while loop of lines 867-870
RECURSIVE BubbleUp(_, _, _)
BubbleUp(rk, current_pos, loser_pos) ==
  IF current_pos > loser_pos
  THEN BubbleUp(SwapAt(rk, current_pos, current_pos - 1), current_pos - 1, loser_pos)
  ELSE rk

SwapRecord(w, l, wins, losses, reason) ==
  [winner |-> w, loser |-> l, wins |-> wins, losses |-> losses, reason |-> reason]

(***************************************************************************)
(* The ranking assembler of one partition, step by step.                   *)
(***************************************************************************)
\* the swaps of the partition before
SwapListAtStart_carried == h2h_swaps

\* line 797: h2h_swaps = []
SwapListAtStart == <<>>

\* lines 771-798: baseline sort, league groups, league ranks, empty swap lists
SortBaseline ==
  /\ pc = "sort"
  /\ \E rk \in {InitialSort} :
       /\ ranked' = rk
       /\ \E groups \in {LeagueGroups(rk)} :
            /\ league_groups' = groups
            /\ school_league_rank' = SchoolLeagueRank(groups)
  /\ h2h_swaps' = SwapListAtStart
  /\ swapped_pairs' = {}
  /\ li' = 1
  /\ k' = 0
  /\ pc' = "phase1"
  /\ UNCHANGED <<inputVars, league_h2h, rejected, i, output>>

\* lines 827-829: a league of fewer than two ranked teams is passed over
Phase1SkipLeague ==
  /\ pc = "phase1"
  /\ li <= Len(league_groups)
  /\ k = 0
  /\ Len(league_groups[li].teams) < 2
  /\ li' = li + 1
  /\ UNCHANGED <<inputVars, pc, ranked, league_groups, school_league_rank,
                 league_h2h, h2h_swaps, swapped_pairs, rejected, k, i, output>>

\* lines 831-846: the head-to-head results within the league
Phase1League ==
  /\ pc = "phase1"
  /\ li <= Len(league_groups)
  /\ k = 0
  /\ Len(league_groups[li].teams) >= 2
  /\ league_h2h' = LeagueH2H(league_groups[li].teams)
  /\ k' = 1
  /\ UNCHANGED <<inputVars, pc, ranked, league_groups, school_league_rank,
                 h2h_swaps, swapped_pairs, rejected, li, i, output>>

\* lines 850-874: one item of league_h2h
Phase1Pair ==
  /\ pc = "phase1"
  /\ k >= 1
  /\ k <= Len(league_h2h)
  /\ \E item \in {league_h2h[k]} :
     \E winner_pos \in {IndexOf(ranked, item.winner_id)} :
     \E loser_pos \in {IndexOf(ranked, item.loser_id)} :
     \E proposed \in {item.wins > item.losses /\ winner_pos > loser_pos} :
     \E circle \in {would_create_circle(item.winner_id, item.loser_id, h2h_swaps)} :
     \E fresh \in {<<item.winner_id, item.loser_id>> \notin swapped_pairs} :
        /\ ranked' = IF proposed /\ ~circle
                     THEN BubbleUp(ranked, winner_pos, loser_pos)
                     ELSE ranked
        /\ h2h_swaps' = IF proposed /\ ~circle /\ fresh
                        THEN Append(h2h_swaps,
                                    SwapRecord(item.winner_id, item.loser_id,
                                               item.wins, item.losses, "League"))
                        ELSE h2h_swaps
        /\ swapped_pairs' = IF proposed /\ ~circle /\ fresh
                            THEN swapped_pairs \cup {<<item.winner_id, item.loser_id>>}
                            ELSE swapped_pairs
        /\ rejected' = IF proposed /\ circle
                       THEN rejected \cup {<<item.winner_id, item.loser_id>>}
                       ELSE rejected
  /\ k' = k + 1
  /\ UNCHANGED <<inputVars, pc, league_groups, school_league_rank, league_h2h,
                 li, i, output>>

\* the items of one league are exhausted: the next league
Phase1NextLeague ==
  /\ pc = "phase1"
  /\ k >= 1
  /\ k > Len(league_h2h)
  /\ li' = li + 1
  /\ k' = 0
  /\ league_h2h' = <<>>
  /\ UNCHANGED <<inputVars, pc, ranked, league_groups, school_league_rank,
                 h2h_swaps, swapped_pairs, rejected, i, output>>

\* line 877: i = 0
Phase1Done ==
  /\ pc = "phase1"
  /\ li > Len(league_groups)
  /\ i' = 0
  /\ pc' = "phase2"
  /\ UNCHANGED <<inputVars, ranked, league_groups, school_league_rank, league_h2h,
                 h2h_swaps, swapped_pairs, rejected, li, k, output>>

(***************************************************************************)
(* Phase 2 (lines 876-943).  i counts from 0 as in the source; ranked is   *)
(* indexed from 1.                                                         *)
(***************************************************************************)
Abs(x) == IF x < 0 THEN 0 - x ELSE x

\* condition_a with the threshold at 0.01
condition_a_narrow(school1_id, school2_id) ==
  Abs(power_index[school1_id] - power_index[school2_id]) < H2H_THRESHOLD - 1

condition_a(school1_id, school2_id) ==
  Abs(power_index[school1_id] - power_index[school2_id]) < H2H_THRESHOLD

\* condition_b without the league rank threshold
condition_b_any_rank(school1_id, school2_id) ==
  /\ league[school1_id] # NoLeague
  /\ league[school1_id] = league[school2_id]

condition_b(school1_id, school2_id) ==
  /\ league[school1_id] # NoLeague
  /\ league[school1_id] = league[school2_id]
  /\ Abs(LeagueRankOf(school1_id) - LeagueRankOf(school2_id))
       <= H2H_LEAGUE_RANK_THRESHOLD

\* lines 908-926
should_swap(h2h_detail) ==
  IF h2h_detail.wins > h2h_detail.losses THEN TRUE
  ELSE IF h2h_detail.wins = h2h_detail.losses /\ h2h_detail.wins > 0
       THEN SeqSum([j \in DOMAIN h2h_detail.matches |-> h2h_detail.matches[j].fws1])
            > SeqSum([j \in DOMAIN h2h_detail.matches |-> h2h_detail.matches[j].fws2])
       ELSE FALSE

\* lines 929-935
SwapReason(a, b) ==
  IF a /\ b THEN "Both" ELSE IF a THEN "Statewide" ELSE "League"

\* after a swap the winner is compared next with the school above it
Phase2Step_winner_again ==
  /\ pc = "phase2"
  /\ i < Len(ranked) - 1
  /\ \E school1_id \in {ranked[i + 1]} :
     \E school2_id \in {ranked[i + 2]} :
     \E a \in {condition_a(school1_id, school2_id)} :
     \E b \in {condition_b(school1_id, school2_id)} :
     \E h2h_detail \in {H2HOf(school2_id, school1_id)} :
     \E proposed \in {(a \/ b) /\ should_swap(h2h_detail)} :
     \E circle \in {would_create_circle(school2_id, school1_id, h2h_swaps)} :
        /\ ranked' = IF proposed /\ ~circle THEN SwapAt(ranked, i + 1, i + 2)
                     ELSE ranked
        /\ h2h_swaps' = IF proposed /\ ~circle
                        THEN Append(h2h_swaps,
                                    SwapRecord(school2_id, school1_id,
                                               h2h_detail.wins, h2h_detail.losses,
                                               SwapReason(a, b)))
                        ELSE h2h_swaps
        /\ swapped_pairs' = IF proposed /\ ~circle
                            THEN swapped_pairs \cup {<<school2_id, school1_id>>}
                            ELSE swapped_pairs
        /\ rejected' = IF proposed /\ circle
                       THEN rejected \cup {<<school2_id, school1_id>>}
                       ELSE rejected
  /\ i' = IF ranked' # ranked /\ i > 0 THEN i - 1 ELSE i + 1
  /\ UNCHANGED <<inputVars, pc, league_groups, school_league_rank, league_h2h,
                 li, k, output>>

Phase2Step ==
  /\ pc = "phase2"
  /\ i < Len(ranked) - 1
  /\ \E school1_id \in {ranked[i + 1]} :
     \E school2_id \in {ranked[i + 2]} :
     \E a \in {condition_a(school1_id, school2_id)} :
     \E b \in {condition_b(school1_id, school2_id)} :
     \E h2h_detail \in {H2HOf(school2_id, school1_id)} :
     \E proposed \in {(a \/ b) /\ should_swap(h2h_detail)} :
     \E circle \in {would_create_circle(school2_id, school1_id, h2h_swaps)} :
        /\ ranked' = IF proposed /\ ~circle THEN SwapAt(ranked, i + 1, i + 2)
                     ELSE ranked
        /\ h2h_swaps' = IF proposed /\ ~circle
                        THEN Append(h2h_swaps,
                                    SwapRecord(school2_id, school1_id,
                                               h2h_detail.wins, h2h_detail.losses,
                                               SwapReason(a, b)))
                        ELSE h2h_swaps
        /\ swapped_pairs' = IF proposed /\ ~circle
                            THEN swapped_pairs \cup {<<school2_id, school1_id>>}
                            ELSE swapped_pairs
        /\ rejected' = IF proposed /\ circle
                       THEN rejected \cup {<<school2_id, school1_id>>}
                       ELSE rejected
  /\ i' = i + 1
  /\ UNCHANGED <<inputVars, pc, league_groups, school_league_rank, league_h2h,
                 li, k, output>>

\* Phase 2 started over from i = 0 as long as a pair could still be swapped
Phase2Done_until_fixpoint ==
  /\ pc = "phase2"
  /\ i >= Len(ranked) - 1
  /\ \E again \in {\E j \in 1..(Len(ranked) - 1) :
                      /\ condition_a(ranked[j], ranked[j + 1])
                           \/ condition_b(ranked[j], ranked[j + 1])
                      /\ should_swap(H2HOf(ranked[j + 1], ranked[j]))
                      /\ ~would_create_circle(ranked[j + 1], ranked[j], h2h_swaps)} :
       /\ pc' = IF again THEN "phase2" ELSE "output"
       /\ i' = IF again THEN 0 ELSE i
  /\ UNCHANGED <<inputVars, ranked, league_groups, school_league_rank, league_h2h,
                 h2h_swaps, swapped_pairs, rejected, li, k, output>>

Phase2Done ==
  /\ pc = "phase2"
  /\ i >= Len(ranked) - 1
  /\ pc' = "output"
  /\ UNCHANGED <<inputVars, ranked, league_groups, school_league_rank, league_h2h,
                 h2h_swaps, swapped_pairs, rejected, li, k, i, output>>

(***************************************************************************)
(* Output (lines 1015-1074) and class ranks (lines 1076-1091)              *)
(***************************************************************************)
\* a swap the school won or lost decides flag and reason
BoostOf_either_side(school_id) ==
  LET in == {j \in DOMAIN h2h_swaps : \/ h2h_swaps[j].winner = school_id
                                      \/ h2h_swaps[j].loser = school_id}
  IN IF in = {} THEN [h2h_boosted |-> FALSE, h2h_boost_reason |-> "None"]
     ELSE [h2h_boosted |-> TRUE, h2h_boost_reason |-> h2h_swaps[Min(in)].reason]

\* lines 1019-1026: the first swap won by the school decides flag and reason
BoostOf(school_id) ==
  LET won == {j \in DOMAIN h2h_swaps : h2h_swaps[j].winner = school_id}
  IN IF won = {} THEN [h2h_boosted |-> FALSE, h2h_boost_reason |-> "None"]
     ELSE [h2h_boosted |-> TRUE, h2h_boost_reason |-> h2h_swaps[Min(won)].reason]

OutputEntry(rank) ==
  LET school_id == ranked[rank]
  IN [year |-> year,
      rank |-> rank,
      class_rank |-> 0,
      school_id |-> school_id,
      classification |-> classification[school_id],
      league |-> league[school_id],
      league_rank |-> LeagueRankOf(school_id),
      power_index |-> power_index[school_id],
      h2h_boosted |-> BoostOf(school_id).h2h_boosted,
      h2h_boost_reason |-> BoostOf(school_id).h2h_boost_reason]

GenerateOutput ==
  /\ pc = "output"
  /\ output' = output \o [rank \in 1..Len(ranked) |-> OutputEntry(rank)]
  /\ pc' = IF year < Len(partitions) THEN "next" ELSE "class"
  /\ UNCHANGED <<inputVars, ranked, league_groups, school_league_rank, league_h2h,
                 h2h_swaps, swapped_pairs, rejected, li, k, i>>

\* entries.sort(key=lambda x: x['rank']): a stable ascending sort
\* InsertByRank ordering by Power Index, descending, instead of by rank
InsertByRank_by_power_index(sorted, e) ==
  LET p == Cardinality({j \in DOMAIN sorted : sorted[j].power_index >= e.power_index})
  IN SubSeq(sorted, 1, p) \o <<e>> \o SubSeq(sorted, p + 1, Len(sorted))

InsertByRank(sorted, e) ==
  LET p == Cardinality({j \in DOMAIN sorted : sorted[j].rank <= e.rank})
  IN SubSeq(sorted, 1, p) \o <<e>> \o SubSeq(sorted, p + 1, Len(sorted))

RECURSIVE SortByRank(_)
SortByRank(entries) ==
  IF entries = <<>> THEN <<>>
  ELSE InsertByRank(SortByRank(SubSeq(entries, 1, Len(entries) - 1)),
                    entries[Len(entries)])

\* the entries of every partition in one group
ClassKey_without_year(entry) == <<entry.classification>>

\* line 1079 (one gender is modelled)
ClassKey(entry) == <<entry.year, entry.classification>>

\* class_groups[key]: the entries of one classification, in output order,
\* then sorted by rank
ClassGroup(out, key) ==
  SortByRank(Concat([j \in DOMAIN out |->
                       IF ClassKey(out[j]) = key THEN <<out[j]>> ELSE <<>>]))

\* enumerate(entries, 1)
ClassRankOf(out, e) ==
  LET entries == ClassGroup(out, ClassKey(e))
  IN CHOOSE n \in DOMAIN entries : entries[n] = e

AssignClassRanks ==
  /\ pc = "class"
  /\ output' = [j \in DOMAIN output |->
                  [output[j] EXCEPT !.class_rank = ClassRankOf(output, output[j])]]
  /\ pc' = "done"
  /\ UNCHANGED <<inputVars, ranked, league_groups, school_league_rank, league_h2h,
                 h2h_swaps, swapped_pairs, rejected, li, k, i>>

(***************************************************************************)
(* Specification of the ranking assembler.                                 *)
(***************************************************************************)
\* the partition holds n schools; their Power Indexes, leagues,
\* classifications and files are drawn from the given sets
InitWith(n, PIs, Lgs, Cls, Kinds) ==
  /\ pc = "sort"
  /\ power_index \in [1..n -> PIs]
  /\ league \in [1..n -> Lgs]
  /\ classification \in [1..n -> Cls]
  /\ \E pv \in [UnorderedPairs(n) -> Kinds] :
       raw_data_cache = [s \in 1..n |-> FileOf(pv, n, s)]
  /\ ranked = <<>>
  /\ league_groups = <<>>
  /\ school_league_rank = <<>>
  /\ league_h2h = <<>>
  /\ h2h_swaps = <<>>
  /\ swapped_pairs = {}
  /\ rejected = {}
  /\ li = 1
  /\ k = 0
  /\ i = 0
  /\ output = <<>>
  /\ files = <<>>
  /\ school_data = <<>>
  /\ order = <<>>
  /\ si = 0
  /\ unset_read = FALSE
  /\ year = 1
  /\ partitions = <<>>
  /\ search_stack = <<>>
  /\ search_visited = {}
  /\ SpiderAtRest

Init == \E n \in 1..NumTeams : InitWith(n, 0..MaxPI, Leagues, {1}, PairKinds)

\* every classification, the files in agreement and with a meet won by the
\* first school at most
InitClass ==
  \E n \in 1..NumTeams : InitWith(n, 0..MaxPI, Leagues, Classes, {"none", "first"})

\* the files in agreement, a pair of schools meeting up to twice
InitSeries == \E n \in 1..NumTeams : InitWith(n, 0..MaxPI, Leagues, {1}, SeriesKinds)

Next ==
  \/ SortBaseline
  \/ Phase1SkipLeague
  \/ Phase1League
  \/ Phase1Pair
  \/ Phase1NextLeague
  \/ Phase1Done
  \/ Phase2Step
  \/ Phase2Done
  \/ GenerateOutput
  \/ AssignClassRanks

Spec == Init /\ [][Next]_vars

SpecClass == InitClass /\ [][Next]_vars

SpecSeries == InitSeries /\ [][Next]_vars

\* the files in agreement, with series of equal wins and losses
InitSplit == \E n \in 1..NumTeams : InitWith(n, 0..MaxPI, Leagues, {1}, SplitKinds)

SpecSplit == InitSplit /\ [][Next]_vars

\* One school more than NumTeams, so that two schools of one league can be
\* more than H2H_LEAGUE_RANK_THRESHOLD league ranks apart.  The Power Indexes
\* do not increase with the id, the files agree, and only the last school
\* has met the others, up to twice each.
LeagueTeams == NumTeams + 1

InitLeague ==
  /\ pc = "sort"
  /\ power_index \in {f \in [1..LeagueTeams -> 0..MaxPI] :
                        \A t \in 1..(LeagueTeams - 1) : f[t] >= f[t + 1]}
  /\ league \in [1..LeagueTeams -> Leagues]
  /\ classification = [t \in 1..LeagueTeams |-> 1]
  /\ \E last \in [1..(LeagueTeams - 1) -> SeriesKinds] :
       raw_data_cache =
         [s \in 1..LeagueTeams |->
            FileOf([p \in UnorderedPairs(LeagueTeams) |->
                      IF p[2] = LeagueTeams THEN last[p[1]] ELSE "none"],
                   LeagueTeams, s)]
  /\ ranked = <<>>
  /\ league_groups = <<>>
  /\ school_league_rank = <<>>
  /\ league_h2h = <<>>
  /\ h2h_swaps = <<>>
  /\ swapped_pairs = {}
  /\ rejected = {}
  /\ li = 1
  /\ k = 0
  /\ i = 0
  /\ output = <<>>
  /\ files = <<>>
  /\ school_data = <<>>
  /\ order = <<>>
  /\ si = 0
  /\ unset_read = FALSE
  /\ year = 1
  /\ partitions = <<>>
  /\ search_stack = <<>>
  /\ search_visited = {}
  /\ SpiderAtRest

SpecLeague == InitLeague /\ [][Next]_vars

(***************************************************************************)
(* Several partitions (lines 769-770): the assembler goes through them one *)
(* after the other and appends the entries of each to the one list output; *)
(* class ranks are assigned when all partitions are through.  school_info  *)
(* (league, classification) is the same for every partition.               *)
(***************************************************************************)
\* schools in a partition of a run of several partitions
PartitionTeams == NumTeams - 1

\* the input of a partition
PartitionInput(pi, pv) ==
  [power_index |-> pi,
   raw_data_cache |-> [s \in 1..PartitionTeams |-> FileOf(pv, PartitionTeams, s)]]

PartitionInputs ==
  {PartitionInput(pi, pv) : pi \in [1..PartitionTeams -> 0..MaxPI],
                            pv \in [UnorderedPairs(PartitionTeams) -> AgreedKinds]}

\* lines 769-798: the next (year, gender) of the loop
NextPartition ==
  /\ pc = "next"
  /\ year' = year + 1
  /\ power_index' = partitions[year + 1].power_index
  /\ raw_data_cache' = partitions[year + 1].raw_data_cache
  /\ rejected' = {}
  /\ pc' = "sort"
  /\ UNCHANGED <<league, classification, ratingVars, partitions, searchVars, spiderVars,
                 ranked,
                 league_groups, school_league_rank, league_h2h, h2h_swaps,
                 swapped_pairs, li, k, i, output>>

\* three partitions, the first and the third with the same input
InitPartitions ==
  /\ pc = "sort"
  /\ \E same \in PartitionInputs : \E other \in PartitionInputs :
       /\ partitions = <<same, other, same>>
       /\ power_index = same.power_index
       /\ raw_data_cache = same.raw_data_cache
  /\ year = 1
  /\ search_stack = <<>>
  /\ search_visited = {}
  /\ SpiderAtRest
  /\ league \in [1..PartitionTeams -> Leagues]
  /\ classification \in [1..PartitionTeams -> Classes]
  /\ ranked = <<>>
  /\ league_groups = <<>>
  /\ school_league_rank = <<>>
  /\ league_h2h = <<>>
  /\ h2h_swaps = <<>>
  /\ swapped_pairs = {}
  /\ rejected = {}
  /\ li = 1
  /\ k = 0
  /\ i = 0
  /\ output = <<>>
  /\ files = <<>>
  /\ school_data = <<>>
  /\ order = <<>>
  /\ si = 0
  /\ unset_read = FALSE

NextPartitions ==
  \/ SortBaseline
  \/ Phase1SkipLeague
  \/ Phase1League
  \/ Phase1Pair
  \/ Phase1NextLeague
  \/ Phase1Done
  \/ Phase2Step
  \/ Phase2Done
  \/ GenerateOutput
  \/ NextPartition
  \/ AssignClassRanks

SpecPartitions == InitPartitions /\ [][NextPartitions]_vars

(***************************************************************************)
(* Ratings.  A rating is the fraction <<num, den>> in lowest terms, with   *)
(* den > 0; the source computes the same quotients in floating point.      *)
(***************************************************************************)
RECURSIVE GCD(_, _)
GCD(a, b) == IF b = 0 THEN a ELSE GCD(b, a % b)

Rat(n, d) == LET g == GCD(n, d) IN <<n \div g, d \div g>>

Zero == <<0, 1>>
Half == <<1, 2>>
One == <<1, 1>>

RatAdd(a, b) == Rat(a[1] * b[2] + b[1] * a[2], a[2] * b[2])

RatMul(a, b) == Rat(a[1] * b[1], a[2] * b[2])

RatLeq(a, b) == a[1] * b[2] <= b[1] * a[2]

RECURSIVE RatSum(_)
RatSum(s) == IF s = <<>> THEN Zero ELSE RatAdd(Head(s), RatSum(Tail(s)))

\* sum(values) / len(values)
RatMean(s) == RatMul(RatSum(s), <<1, Len(s)>>)

WP_WEIGHT == <<1, 4>>
OWP_WEIGHT == <<1, 2>>
OOWP_WEIGHT == <<1, 4>>
APR_WEIGHT == <<1, 2>>
FWS_WEIGHT == <<1, 2>>

\* a key of a stats dict that was not assigned yet
Unset == <<>>

(***************************************************************************)
(* Season files of the rating passes.  The partition has the schools       *)
(* 1..NumTeams; UnknownSchool has no file.                                 *)
(***************************************************************************)
UnknownSchool == NumTeams + 1

NextSchool(s) == (s % NumTeams) + 1

PrevSchool(s) == ((s + NumTeams - 2) % NumTeams) + 1

Team(school, won) == [players |-> <<school>>, isWinner |-> won]

Meet(title, w, wscore, l, lscore, singles, doubles) ==
  [title |-> title,
   winners |-> << [id |-> w, score |-> wscore] >>,
   losers |-> << [id |-> l, score |-> lscore] >>,
   matches |-> [Singles |-> singles, Doubles |-> doubles]]

\* The meets a file of school s is made of:
\*   1  a dual won 5-3 over the next school, flights S1 and D1 won, S2 lost;
\*   2  a dual tied 4-4 with a school outside the data, flight S2 won and
\*      flight S4 with one team only (not contested);
\*   3  a dual lost 2-6 to the previous school, flights S1 and D2 lost;
\*   4  a tournament, flight S1 won;
\*   5  a dual lost 0-1 to the next school with no flight recorded.
Catalog(s) ==
  << Meet({}, s, 5, NextSchool(s), 3,
          << Flight("1", s, NextSchool(s)), Flight("2", NextSchool(s), s) >>,
          << Flight("1", s, NextSchool(s)) >>),
     Meet({}, s, 4, UnknownSchool, 4,
          << Flight("2", s, UnknownSchool),
             [flight |-> "4", matchTeams |-> << Team(s, TRUE) >>] >>,
          <<>>),
     Meet({}, PrevSchool(s), 6, s, 2,
          << Flight("1", PrevSchool(s), s) >>,
          << Flight("2", PrevSchool(s), s) >>),
     Meet({"Tournament"}, s, 1, NextSchool(s), 0,
          << Flight("1", s, NextSchool(s)) >>, <<>>),
     Meet({}, NextSchool(s), 1, s, 0, <<>>, <<>>) >>

\* the choices of at most MaxMeets meets of the catalog
MeetChoices == {S \in SUBSET DOMAIN Catalog(1) : Cardinality(S) <= MaxMeets}

\* data['meets'] of the file of school s holding the chosen meets
FileFrom(s, S) == [j \in 1..Cardinality(S) |-> Catalog(s)[SetToSeq(S)[j]]]

(***************************************************************************)
(* extract_match_results, process_school_data, get_dual_match_record       *)
(***************************************************************************)
\* the teams of a flight with a player of the school
TeamsOf(match, school_id) ==
  {j \in DOMAIN match.matchTeams : school_id \in Range(match.matchTeams[j].players)}

\* lines 291-306: the result of one flight, if the school played it
FlightResult(opponent_id, match_type, match, school_id) ==
  LET mine == TeamsOf(match, school_id)
  IN IF mine = {} THEN <<>>
     ELSE << [opponent_id |-> opponent_id,
              match_type |-> match_type,
              flight |-> match.flight,
              is_win |-> match.matchTeams[Min(mine)].isWinner,
              weight |-> get_flight_weight(match_type, match.flight)] >>

extract_match_results(meet, school_id) ==
  LET entries == meet.winners \o meet.losers
      others == {j \in DOMAIN entries : entries[j].id # school_id}
  IN IF others = {} THEN <<>>
     ELSE Concat([j \in DOMAIN meet.matches.Singles |->
                    FlightResult(entries[Max(others)].id, "Singles",
                                 meet.matches.Singles[j], school_id)])
          \o Concat([j \in DOMAIN meet.matches.Doubles |->
                       FlightResult(entries[Max(others)].id, "Doubles",
                                    meet.matches.Doubles[j], school_id)])

process_school_data(data, school_id) ==
  LET all_results == Concat([j \in DOMAIN data |->
                               IF is_dual_match(data[j])
                               THEN extract_match_results(data[j], school_id)
                               ELSE <<>>])
  IN [all_results |-> all_results,
      opponents |-> {all_results[j].opponent_id : j \in DOMAIN all_results}]

\* "win", "loss", "tie" or "none" for one meet
DualResult(meet, school_id) ==
  LET entries == meet.winners \o meet.losers
      school_score == LastScore(entries, {j \in DOMAIN entries :
                                            entries[j].id = school_id})
      opponent_score == LastScore(entries, {j \in DOMAIN entries :
                                              entries[j].id # school_id})
  IN IF ~is_dual_match(meet) \/ school_score = NoScore \/ opponent_score = NoScore
     THEN "none"
     ELSE IF school_score > opponent_score THEN "win"
     ELSE IF school_score < opponent_score THEN "loss"
     ELSE "tie"

get_dual_match_record(meets, school_id) ==
  LET count(r) == Cardinality({j \in DOMAIN meets :
                                 DualResult(meets[j], school_id) = r})
  IN [wins |-> count("win"), losses |-> count("loss"), ties |-> count("tie")]

(***************************************************************************)
(* calculate_fws_per_match                                                 *)
(***************************************************************************)
\* line 607
flight_contested(match) == Len(match.matchTeams) >= 2

\* the points of a flight counted whether or not the flight was contested
FlightPoints_uncontested(match, weight, school_id) ==
  weight * Cardinality({j \in TeamsOf(match, school_id) :
                          match.matchTeams[j].isWinner})

\* lines 609-625: the weight of a contested flight, once for every winning
\* team with a player of the school
FlightPoints(match, weight, school_id) ==
  IF flight_contested(match)
  THEN weight * Cardinality({j \in TeamsOf(match, school_id) :
                               match.matchTeams[j].isWinner})
  ELSE 0

\* lines 591-625: points_earned and available_weight of one meet
MeetPoints(meet, school_id) ==
  LET of(match_type) ==
        [j \in DOMAIN meet.matches[match_type] |->
           LET match == meet.matches[match_type][j]
               weight == get_flight_weight(match_type, match.flight)
           IN [points_earned |-> FlightPoints(match, weight, school_id),
               available_weight |-> IF flight_contested(match) THEN weight ELSE 0,
               played |-> IF flight_contested(match) THEN 1 ELSE 0,
               won |-> IF FlightPoints(match, weight, school_id) > 0 THEN 1 ELSE 0]]
      flights == of("Singles") \o of("Doubles")
  IN [points_earned |-> SeqSum([j \in DOMAIN flights |-> flights[j].points_earned]),
      available_weight |-> SeqSum([j \in DOMAIN flights |-> flights[j].available_weight]),
      played |-> SeqSum([j \in DOMAIN flights |-> flights[j].played]),
      won |-> SeqSum([j \in DOMAIN flights |-> flights[j].won])]

\* line 36, in hundredths
MAX_FWS == 395

\* the points of a meet divided by the weight of all eight flights
match_fws_of_max(points_earned, available_weight) == Rat(points_earned, MAX_FWS)

\* line 628
match_fws(points_earned, available_weight) == Rat(points_earned, available_weight)

calculate_fws_per_match(data, school_id) ==
  LET duals == Concat([j \in DOMAIN data |->
                         IF is_dual_match(data[j])
                         THEN << MeetPoints(data[j], school_id) >> ELSE <<>>])
      dual_match_fws_scores ==
        Concat([j \in DOMAIN duals |->
                  IF duals[j].available_weight > 0
                  THEN << match_fws(duals[j].points_earned, duals[j].available_weight) >>
                  ELSE <<>>])
  IN IF dual_match_fws_scores = <<>>
     THEN [normalized_fws |-> Zero, match_count |-> 0,
           total_flights_won |-> 0, total_flights_played |-> 0]
     ELSE [normalized_fws |-> RatMean(dual_match_fws_scores),
           match_count |-> Len(dual_match_fws_scores),
           total_flights_won |-> SeqSum([j \in DOMAIN duals |-> duals[j].won]),
           total_flights_played |-> SeqSum([j \in DOMAIN duals |-> duals[j].played])]

(***************************************************************************)
(* The rating passes of one partition (lines 675-776), step by step.       *)
(***************************************************************************)
\* a school whose file yields no result is given an entry all the same
HasResults_always(results) == TRUE

\* line 695: if results:
HasResults(results) == results # <<>>

\* lines 700-701
WinPercentage(record) ==
  LET total_duals == record.wins + record.losses + record.ties
  IN IF total_duals > 0 THEN Rat(2 * record.wins + record.ties, 2 * total_duals)
     ELSE Zero

\* lines 703-722: the stats of a school after the first pass
NewStats(data, school_id, processed) ==
  LET record == get_dual_match_record(data, school_id)
      fws_data == calculate_fws_per_match(data, school_id)
  IN [wp |-> WinPercentage(record),
      opponents |-> processed.opponents,
      matches_played |-> Len(processed.all_results),
      dual_wins |-> record.wins,
      dual_losses |-> record.losses,
      dual_ties |-> record.ties,
      normalized_fws |-> fws_data.normalized_fws,
      fws_match_count |-> fws_data.match_count,
      total_flights_won |-> fws_data.total_flights_won,
      total_flights_played |-> fws_data.total_flights_played,
      owp |-> Unset, oowp |-> Unset, apr |-> Unset, power_index |-> Unset]

\* lines 675-722: one file, in whatever order glob yields the files
LoadFile ==
  /\ pc = "load"
  /\ \E school_id \in DOMAIN files \ DOMAIN raw_data_cache :
     \E data \in {files[school_id]} :
     \E processed \in {process_school_data(data, school_id)} :
       /\ raw_data_cache' = raw_data_cache @@ (school_id :> data)
       /\ school_data' = IF HasResults(processed.all_results)
                         THEN school_data @@
                              (school_id :> NewStats(data, school_id, processed))
                         ELSE school_data
       /\ order' = IF HasResults(processed.all_results)
                   THEN Append(order, school_id) ELSE order
  /\ UNCHANGED <<assemblerVars, pc, ranked, files, si, unset_read>>

\* line 725: the file loop is over
LoadDone ==
  /\ pc = "load"
  /\ DOMAIN raw_data_cache = DOMAIN files
  /\ pc' = "owp"
  /\ si' = 1
  /\ UNCHANGED <<assemblerVars, raw_data_cache, ranked, files, school_data, order,
                 unset_read>>

\* the pass is over after its first school
PassOver_after_first(pos, keys) == pos > 1 \/ pos > Len(keys)

\* the loop over school_data[year][gender] is exhausted
PassOver(pos, keys) == pos > Len(keys)

\* the opponents in the data only
OpponentValues_known_only(opponents, field) ==
  LET known == SetToSeq(opponents \cap DOMAIN school_data)
  IN [j \in DOMAIN known |-> school_data[known[j]][field]]

\* lines 731-737 and 750-756: opponent_wps, opponent_owps
OpponentValues(opponents, field) ==
  LET opps == SetToSeq(opponents)
  IN [j \in DOMAIN opps |->
        IF opps[j] \in DOMAIN school_data THEN school_data[opps[j]][field]
        ELSE Half]

\* lines 739, 758
MeanOrHalf(values) == IF values = <<>> THEN Half ELSE RatMean(values)

\* a read of a key that was not assigned (KeyError)
ReadsUnset(opponents, field) ==
  \E opp_id \in opponents \cap DOMAIN school_data :
     school_data[opp_id][field] = Unset

\* lines 727-740: OWP of one school
OwpStep ==
  /\ pc = "owp"
  /\ ~PassOver(si, order)
  /\ \E school_id \in {order[si]} :
     \E missing \in {ReadsUnset(school_data[school_id].opponents, "wp")} :
       /\ school_data' =
            IF missing THEN school_data
            ELSE [school_data EXCEPT ![school_id].owp =
                    MeanOrHalf(OpponentValues(school_data[school_id].opponents, "wp"))]
       /\ pc' = IF missing THEN "KeyError" ELSE pc
       /\ unset_read' = (unset_read \/ missing)
  /\ si' = si + 1
  /\ UNCHANGED <<assemblerVars, raw_data_cache, ranked, files, order>>

\* line 743: the OWP loop is over
OwpDone ==
  /\ pc = "owp"
  /\ PassOver(si, order)
  /\ pc' = "oowp"
  /\ si' = 1
  /\ UNCHANGED <<assemblerVars, raw_data_cache, ranked, files, school_data, order,
                 unset_read>>

\* lines 762, 765
WithAprAndPowerIndex(stats, oowp) ==
  LET apr == RatAdd(RatAdd(RatMul(stats.wp, WP_WEIGHT), RatMul(stats.owp, OWP_WEIGHT)),
                    RatMul(oowp, OOWP_WEIGHT))
  IN [stats EXCEPT !.oowp = oowp,
                   !.apr = apr,
                   !.power_index = RatAdd(RatMul(apr, APR_WEIGHT),
                                          RatMul(stats.normalized_fws, FWS_WEIGHT))]

\* lines 745-765: OOWP, APR and Power Index of one school
OowpStep ==
  /\ pc = "oowp"
  /\ ~PassOver(si, order)
  /\ \E school_id \in {order[si]} :
     \E missing \in {ReadsUnset(school_data[school_id].opponents \cup {school_id},
                                 "owp")} :
       /\ school_data' =
            IF missing THEN school_data
            ELSE [school_data EXCEPT ![school_id] =
                    WithAprAndPowerIndex(
                      school_data[school_id],
                      MeanOrHalf(OpponentValues(school_data[school_id].opponents,
                                                "owp")))]
       /\ pc' = IF missing THEN "KeyError" ELSE pc
       /\ unset_read' = (unset_read \/ missing)
  /\ si' = si + 1
  /\ UNCHANGED <<assemblerVars, raw_data_cache, ranked, files, order>>

RECURSIVE LCM(_)
LCM(S) ==
  IF S = {} THEN 1
  ELSE LET d == CHOOSE x \in S : TRUE
           m == LCM(S \ {d})
       IN (d \div GCD(d, m)) * m

\* the Power Indexes over one common denominator
PowerIndexKeys(data) ==
  LET den == LCM({data[s].power_index[2] : s \in DOMAIN data})
  IN [s \in DOMAIN data |-> data[s].power_index[1] * (den \div data[s].power_index[2])]

\* lines 772-776: the baseline of the partition
RatedBaseline ==
  /\ pc = "oowp"
  /\ PassOver(si, order)
  /\ \E missing \in {ReadsUnset(DOMAIN school_data, "power_index")} :
       /\ ranked' = IF missing THEN ranked
                    ELSE SortedDesc(order, PowerIndexKeys(school_data))
       /\ pc' = IF missing THEN "KeyError" ELSE "rated"
       /\ unset_read' = (unset_read \/ missing)
  /\ UNCHANGED <<assemblerVars, raw_data_cache, files, school_data, order, si>>

InitRating ==
  /\ pc = "load"
  /\ \E choice \in [1..NumTeams -> MeetChoices] :
       files = [s \in 1..NumTeams |-> FileFrom(s, choice[s])]
  /\ raw_data_cache = <<>>
  /\ school_data = <<>>
  /\ order = <<>>
  /\ si = 0
  /\ unset_read = FALSE
  /\ power_index = <<>>
  /\ league = <<>>
  /\ classification = <<>>
  /\ ranked = <<>>
  /\ league_groups = <<>>
  /\ school_league_rank = <<>>
  /\ league_h2h = <<>>
  /\ h2h_swaps = <<>>
  /\ swapped_pairs = {}
  /\ rejected = {}
  /\ li = 1
  /\ k = 0
  /\ i = 0
  /\ output = <<>>
  /\ year = 1
  /\ partitions = <<>>
  /\ search_stack = <<>>
  /\ search_visited = {}
  /\ SpiderAtRest

NextRating ==
  \/ LoadFile
  \/ LoadDone
  \/ OwpStep
  \/ OwpDone
  \/ OowpStep
  \/ RatedBaseline

SpecRating == InitRating /\ [][NextRating]_vars

(***************************************************************************)
(* Scenario A: school 1 has one dual meet, won over school 2, with all     *)
(* eight flights contested; the files of schools 2 and 3 hold any choice   *)
(* of meets, the file of school 2 after its record of the same meet.       *)
(***************************************************************************)
\* x beat o, winning S1, S2 and D1 and losing S3, S4, D2, D3 and D4
ScenarioMeet(x, o) ==
  Meet({}, x, 5, o, 3,
       << Flight("1", x, o), Flight("2", x, o), Flight("3", o, x), Flight("4", o, x) >>,
       << Flight("1", x, o), Flight("2", o, x), Flight("3", o, x), Flight("4", o, x) >>)

InitScenarioA ==
  /\ pc = "load"
  /\ \E choice \in [2..NumTeams -> MeetChoices] :
       files = [s \in 1..NumTeams |->
                  IF s = 1 THEN << ScenarioMeet(1, 2) >>
                  ELSE IF s = 2 THEN << ScenarioMeet(1, 2) >> \o FileFrom(s, choice[s])
                  ELSE FileFrom(s, choice[s])]
  /\ raw_data_cache = <<>>
  /\ school_data = <<>>
  /\ order = <<>>
  /\ si = 0
  /\ unset_read = FALSE
  /\ power_index = <<>>
  /\ league = <<>>
  /\ classification = <<>>
  /\ ranked = <<>>
  /\ league_groups = <<>>
  /\ school_league_rank = <<>>
  /\ league_h2h = <<>>
  /\ h2h_swaps = <<>>
  /\ swapped_pairs = {}
  /\ rejected = {}
  /\ li = 1
  /\ k = 0
  /\ i = 0
  /\ output = <<>>
  /\ year = 1
  /\ partitions = <<>>
  /\ search_stack = <<>>
  /\ search_visited = {}
  /\ SpiderAtRest

SpecScenarioA == InitScenarioA /\ [][NextRating]_vars

(***************************************************************************)
(* Season files as top-level records.  A season record is [meets |-> ...]; *)
(* a file may also hold a record without the key 'meets' (what the API     *)
(* answers for a school it has no season for).                             *)
(***************************************************************************)
NotASeasonRecord == [message |-> "Not Found"]

\* data.get('meets', [])
get_meets(data) == IF "meets" \in DOMAIN data THEN data.meets ELSE <<>>

\* lines 675-722 over top-level records
LoadRecord ==
  /\ pc = "load"
  /\ \E school_id \in DOMAIN files \ DOMAIN raw_data_cache :
     \E data \in {files[school_id]} :
     \E processed \in {process_school_data(get_meets(data), school_id)} :
       /\ raw_data_cache' = raw_data_cache @@ (school_id :> data)
       /\ school_data' = IF HasResults(processed.all_results)
                         THEN school_data @@
                              (school_id :> NewStats(get_meets(data), school_id,
                                                     processed))
                         ELSE school_data
       /\ order' = IF HasResults(processed.all_results)
                   THEN Append(order, school_id) ELSE order
  /\ UNCHANGED <<assemblerVars, pc, ranked, files, si, unset_read>>

InitRecords ==
  /\ pc = "load"
  /\ \E choice \in [1..NumTeams -> MeetChoices \cup {{0}}] :
       files = [s \in 1..NumTeams |->
                  IF choice[s] = {0} THEN NotASeasonRecord
                  ELSE [meets |-> FileFrom(s, choice[s])]]
  /\ raw_data_cache = <<>>
  /\ school_data = <<>>
  /\ order = <<>>
  /\ si = 0
  /\ unset_read = FALSE
  /\ power_index = <<>>
  /\ league = <<>>
  /\ classification = <<>>
  /\ ranked = <<>>
  /\ league_groups = <<>>
  /\ school_league_rank = <<>>
  /\ league_h2h = <<>>
  /\ h2h_swaps = <<>>
  /\ swapped_pairs = {}
  /\ rejected = {}
  /\ li = 1
  /\ k = 0
  /\ i = 0
  /\ output = <<>>
  /\ year = 1
  /\ partitions = <<>>
  /\ search_stack = <<>>
  /\ search_visited = {}
  /\ SpiderAtRest

NextRecords ==
  \/ LoadRecord
  \/ LoadDone
  \/ OwpStep
  \/ OwpDone
  \/ OowpStep
  \/ RatedBaseline

SpecRecords == InitRecords /\ [][NextRecords]_vars

(***************************************************************************)
(* Specifications that apply one function to every input within the bounds *)
(* keep the input in files and the result in output; the rest of the state *)
(* is at rest.                                                             *)
(***************************************************************************)
AtRest ==
  /\ raw_data_cache = <<>>
  /\ school_data = <<>>
  /\ order = <<>>
  /\ si = 0
  /\ unset_read = FALSE
  /\ power_index = <<>>
  /\ league = <<>>
  /\ classification = <<>>
  /\ ranked = <<>>
  /\ league_groups = <<>>
  /\ school_league_rank = <<>>
  /\ league_h2h = <<>>
  /\ h2h_swaps = <<>>
  /\ swapped_pairs = {}
  /\ rejected = {}
  /\ li = 1
  /\ k = 0
  /\ i = 0
  /\ year = 1
  /\ partitions = <<>>
  /\ search_stack = <<>>
  /\ search_visited = {}
  /\ SpiderAtRest

\* What is_dual_match can tell about a title: the substrings it looks for,
\* and "Event <n>" for a title in which Event is followed by a number (such
\* a title contains Event; it may or may not contain a period).
TitleMarks == {"State Championship", "Event", ".", "District", "Tournament",
               "Event <n>"}

Titles == {t \in SUBSET TitleMarks : "Event <n>" \in t => "Event" \in t}

\* winners and losers lists of up to two teams
TeamLists == {<<>>, << [id |-> 1, score |-> 1] >>,
              << [id |-> 1, score |-> 1], [id |-> 2, score |-> 1] >>}

InitDual ==
  /\ pc = "call"
  /\ files \in [title : Titles, winners : TeamLists, losers : TeamLists,
                matches : {[Singles |-> <<>>, Doubles |-> <<>>]}]
  /\ output = <<>>
  /\ AtRest

CallIsDualMatch ==
  /\ pc = "call"
  /\ output' = is_dual_match(files)
  /\ pc' = "returned"
  /\ UNCHANGED <<inputVars, ranked, league_groups, school_league_rank, league_h2h,
                 h2h_swaps, swapped_pairs, rejected, li, k, i>>

SpecDual == InitDual /\ [][CallIsDualMatch]_vars

(***************************************************************************)
(* would_create_circle, one iteration of its loop at a time, over every    *)
(* swap list without repeats on the schools 1..NumTeams (lists whose graph *)
(* has a cycle included) and every pair of distinct schools.               *)
(***************************************************************************)
\* the pairs of distinct schools, in a fixed order
SchoolPairs ==
  Concat([n \in 1..(NumTeams * NumTeams) |->
            LET a == ((n - 1) \div NumTeams) + 1
                b == ((n - 1) % NumTeams) + 1
            IN IF a = b THEN <<>> ELSE << <<a, b>> >>])

\* the swap list recording the pairs in E
SwapList(E) ==
  Concat([n \in DOMAIN SchoolPairs |->
            IF SchoolPairs[n] \in E
            THEN << SwapRecord(SchoolPairs[n][1], SchoolPairs[n][2], 1, 0, "Statewide") >>
            ELSE <<>>])

InitCircle ==
  /\ pc = "call"
  /\ \E E \in SUBSET Range(SchoolPairs) : \E p \in Range(SchoolPairs) :
       files = [new_winner |-> p[1], new_loser |-> p[2], existing_swaps |-> SwapList(E)]
  /\ power_index = [t \in 1..NumTeams |-> 0]
  /\ output = FALSE
  /\ raw_data_cache = <<>>
  /\ school_data = <<>>
  /\ order = <<>>
  /\ si = 0
  /\ unset_read = FALSE
  /\ league = <<>>
  /\ classification = <<>>
  /\ ranked = <<>>
  /\ league_groups = <<>>
  /\ school_league_rank = <<>>
  /\ league_h2h = <<>>
  /\ h2h_swaps = <<>>
  /\ swapped_pairs = {}
  /\ rejected = {}
  /\ li = 1
  /\ k = 0
  /\ i = 0
  /\ year = 1
  /\ partitions = <<>>
  /\ search_stack = <<>>
  /\ search_visited = {}
  /\ SpiderAtRest

\* lines 812-813
CircleStart ==
  /\ pc = "call"
  /\ search_visited' = {}
  /\ search_stack' = << files.new_loser >>
  /\ pc' = "search"
  /\ UNCHANGED <<power_index, league, classification, raw_data_cache, ratingVars,
                 year, partitions, spiderVars, ranked, league_groups,
                 school_league_rank,
                 league_h2h, h2h_swaps, swapped_pairs, rejected, li, k, i, output>>

\* lines 814-821: one iteration of the loop
CircleIterate ==
  /\ pc = "search"
  /\ search_stack # <<>>
  /\ \E current \in {search_stack[Len(search_stack)]} :
     \E rest \in {SubSeq(search_stack, 1, Len(search_stack) - 1)} :
       /\ pc' = IF current = files.new_winner THEN "returned" ELSE pc
       /\ output' = IF current = files.new_winner THEN TRUE ELSE output
       /\ search_visited' = IF current = files.new_winner THEN search_visited
                            ELSE search_visited \cup {current}
       /\ search_stack' =
            IF current = files.new_winner \/ current \in search_visited THEN rest
            ELSE rest \o SetToSeq(BeatGraph(files.new_winner, files.new_loser,
                                            files.existing_swaps)[current])
  /\ UNCHANGED <<power_index, league, classification, raw_data_cache, ratingVars,
                 year, partitions, spiderVars, ranked, league_groups,
                 school_league_rank,
                 league_h2h, h2h_swaps, swapped_pairs, rejected, li, k, i>>

\* line 822
CircleExhausted ==
  /\ pc = "search"
  /\ search_stack = <<>>
  /\ output' = FALSE
  /\ pc' = "returned"
  /\ UNCHANGED <<power_index, league, classification, raw_data_cache, ratingVars,
                 year, partitions, searchVars, spiderVars, ranked, league_groups,
                 school_league_rank, league_h2h, h2h_swaps, swapped_pairs,
                 rejected, li, k, i>>

NextCircle ==
  \/ CircleStart
  \/ CircleIterate
  \/ CircleExhausted

\* the loop is sequential code: it takes its next step whenever it has one
SpecCircle == InitCircle /\ [][NextCircle]_vars /\ WF_vars(NextCircle)

(***************************************************************************)
(* FWS% and FWS+ (lines 646, 1055, 1087-1097) of the entries of one class  *)
(* group.  The input, in files, is the flights won and played of every     *)
(* entry; percentages are kept in tenths of a percent, as rounded for the  *)
(* output.                                                                 *)
(***************************************************************************)
\* round(num / den) of Python: to the nearest integer, a half to the even one
RoundHalfEven(num, den) ==
  LET q == num \div den
      r == num % den
  IN IF 2 * r < den THEN q
     ELSE IF 2 * r > den THEN q + 1
     ELSE IF q % 2 = 0 THEN q ELSE q + 1

\* lines 646 and 1055: round(flights won / flights played * 100, 1)
fws_pct(stats) ==
  IF stats.total_flights_played > 0
  THEN RoundHalfEven(stats.total_flights_won * 1000, stats.total_flights_played)
  ELSE 0

\* lines 1087-1088: the average over the entries with fws_pct > 0, as the
\* fraction <<sum, count>>; 50.0 when there is none
class_avg_fws_pct(pcts) ==
  LET fws_pcts == Concat([j \in DOMAIN pcts |->
                            IF pcts[j] > 0 THEN << pcts[j] >> ELSE <<>>])
  IN IF fws_pcts # <<>> THEN <<SeqSum(fws_pcts), Len(fws_pcts)>> ELSE <<500, 1>>

\* lines 1094-1097
fws_plus(pct, avg) ==
  IF avg[1] > 0 /\ pct > 0 THEN RoundHalfEven(pct * 100 * avg[2], avg[1])
  ELSE 100

FlightCounts ==
  {c \in [total_flights_won : 0..MaxFlights, total_flights_played : 0..MaxFlights] :
     c.total_flights_won <= c.total_flights_played}

InitFwsPlus ==
  /\ pc = "call"
  /\ \E n \in 1..MaxGroup : files \in [1..n -> FlightCounts]
  /\ output = <<>>
  /\ AtRest

\* lines 1085-1097 for one group
CallFwsPlus ==
  /\ pc = "call"
  /\ \E pcts \in {[j \in DOMAIN files |-> fws_pct(files[j])]} :
     \E avg \in {class_avg_fws_pct(pcts)} :
       output' = [j \in DOMAIN files |->
                    [fws_pct |-> pcts[j], fws_plus |-> fws_plus(pcts[j], avg)]]
  /\ pc' = "returned"
  /\ UNCHANGED <<inputVars, ranked, league_groups, school_league_rank, league_h2h,
                 h2h_swaps, swapped_pairs, rejected, li, k, i>>

SpecFwsPlus == InitFwsPlus /\ [][CallFwsPlus]_vars

(***************************************************************************)
(* spider_schools (src/spider_schools.py, lines 116-203), one iteration of *)
(* its loop at a time, with max_depth = None.  The world it runs in is in  *)
(* files: for every school whether the API answers, the state of the       *)
(* school and the schools it met, and the seed list.  events records the   *)
(* API requests issued and the sleeps taken.                               *)
(***************************************************************************)
SpiderSchools == 1..NumTeams

\* the answers of the API: a school met another if the pair is in met
World(api_ok, state, met, seed_ids) ==
  [api_ok |-> api_ok,
   state |-> state,
   opponents |-> [t \in SpiderSchools |->
                    {u \in SpiderSchools \ {t} : {t, u} \in met}],
   seed_ids |-> seed_ids]

\* fetch_school_data (lines 38-72): the data comes from the cache file if
\* there is one; otherwise a request is issued and its answer, if any, is
\* written to the cache file
fetch_school_data(school_id, cache) ==
  IF school_id \in cache
  THEN [data |-> TRUE, requested |-> FALSE, cache |-> cache]
  ELSE IF files.api_ok[school_id]
       THEN [data |-> TRUE, requested |-> TRUE, cache |-> cache \cup {school_id}]
       ELSE [data |-> FALSE, requested |-> TRUE, cache |-> cache]

\* extract_schools_from_data (lines 75-111): the ids of the school and of
\* its opponents
extract_schools_from_data(school_id) == {school_id} \cup files.opponents[school_id]

InitSpider ==
  /\ pc = "spider"
  /\ \E api_ok \in [SpiderSchools -> BOOLEAN] :
     \E state \in [SpiderSchools -> {"OR", "WA"}] :
     \E met \in SUBSET {m \in SUBSET SpiderSchools : Cardinality(m) = 2} :
     \E seed_ids \in {<<1>>, <<1, 2>>} :
       /\ files = World(api_ok, state, met, seed_ids)
       /\ spider_queue = seed_ids
  /\ cache_files \in SUBSET {t \in SpiderSchools : files.api_ok[t]}
  /\ spider_visited = {}
  /\ discovered_schools = {}
  /\ api_requests = 0
  /\ events = <<>>
  /\ output = <<>>
  /\ raw_data_cache = <<>>
  /\ school_data = <<>>
  /\ order = <<>>
  /\ si = 0
  /\ unset_read = FALSE
  /\ power_index = <<>>
  /\ league = <<>>
  /\ classification = <<>>
  /\ ranked = <<>>
  /\ league_groups = <<>>
  /\ school_league_rank = <<>>
  /\ league_h2h = <<>>
  /\ h2h_swaps = <<>>
  /\ swapped_pairs = {}
  /\ rejected = {}
  /\ li = 1
  /\ k = 0
  /\ i = 0
  /\ year = 1
  /\ partitions = <<>>
  /\ search_stack = <<>>
  /\ search_visited = {}

\* lines 141-145: a school that was visited before
SpiderSkip ==
  /\ pc = "spider"
  /\ spider_queue # <<>>
  /\ Head(spider_queue) \in spider_visited
  /\ spider_queue' = Tail(spider_queue)
  /\ UNCHANGED <<pc, power_index, league, classification, raw_data_cache, ratingVars,
                 year, partitions, searchVars, cache_files, spider_visited,
                 discovered_schools, api_requests, events, ranked, league_groups,
                 school_league_rank, league_h2h, h2h_swaps, swapped_pairs,
                 rejected, li, k, i, output>>

\* lines 141-195: one school is crawled
SpiderCrawl ==
  /\ pc = "spider"
  /\ spider_queue # <<>>
  /\ Head(spider_queue) \notin spider_visited
  /\ \E school_id \in {Head(spider_queue)} :
     \E fetched \in {fetch_school_data(school_id, cache_files)} :
     \* line 164: if not os.path.exists(cache_file), after the fetch
     \E counted \in {fetched.data /\ school_id \notin fetched.cache} :
     \* lines 176-179: the state filter
     \E kept \in {fetched.data /\ files.state[school_id] = "OR"} :
     \E new \in {IF kept THEN extract_schools_from_data(school_id) \ discovered_schools
                  ELSE {}} :
       /\ spider_visited' = spider_visited \cup {school_id}
       /\ cache_files' = fetched.cache
       /\ api_requests' = IF counted THEN api_requests + 1 ELSE api_requests
       /\ events' = events \o (IF fetched.requested THEN <<"request">> ELSE <<>>)
                           \o (IF counted THEN <<"sleep">> ELSE <<>>)
       /\ discovered_schools' = discovered_schools \cup new
       /\ spider_queue' = Tail(spider_queue)
                           \o SetToSeq(new \ (spider_visited \cup {school_id}))
  /\ UNCHANGED <<pc, power_index, league, classification, raw_data_cache, ratingVars,
                 year, partitions, searchVars, ranked, league_groups,
                 school_league_rank, league_h2h, h2h_swaps, swapped_pairs,
                 rejected, li, k, i, output>>

\* line 141: the queue is empty
SpiderDone ==
  /\ pc = "spider"
  /\ spider_queue = <<>>
  /\ pc' = "returned"
  /\ output' = discovered_schools
  /\ UNCHANGED <<power_index, league, classification, raw_data_cache, ratingVars,
                 partitionVars, ranked, league_groups, school_league_rank,
                 league_h2h, h2h_swaps, swapped_pairs, rejected, li, k, i>>

NextSpider ==
  \/ SpiderSkip
  \/ SpiderCrawl
  \/ SpiderDone

SpecSpider == InitSpider /\ [][NextSpider]_vars

(***************************************************************************)
(* Notions the properties are stated with.                                 *)
(***************************************************************************)
\* the recorded swaps as edges winner -> loser
SwapEdges == {<<h2h_swaps[j].winner, h2h_swaps[j].loser>> : j \in DOMAIN h2h_swaps}

\* the schools reachable from the set S along at least zero edges of E
RECURSIVE ReachableFrom(_, _)
ReachableFrom(S, E) ==
  LET more == S \cup {e[2] : e \in {d \in E : d[1] \in S}}
  IN IF more = S THEN S ELSE ReachableFrom(more, E)

\* a path of at least one edge leads from a to b
PathExists(a, b, E) == b \in ReachableFrom({e[2] : e \in {d \in E : d[1] = a}}, E)

Acyclic(E) == \A t \in Schools : ~PathExists(t, t, E)

PosOf(t) == IndexOf(ranked, t)

\* school a has strictly more head-to-head wins than losses against b,
\* by the file of a
Beat(a, b) == H2HOf(a, b).wins > H2HOf(a, b).losses

\* the two files of every pair of schools tell the same result
FilesAgree ==
  \A a \in Schools : \A b \in Schools \ {a} :
    /\ H2HOf(a, b).wins = H2HOf(b, a).losses
    /\ H2HOf(a, b).losses = H2HOf(b, a).wins

IsPermutation(rk) ==
  /\ Len(rk) = Cardinality(Schools)
  /\ Range(rk) = Schools

Phase1Over == pc \in {"phase2", "output", "class", "done"}

(***************************************************************************)
(* C1.  At every point of Phase 1 and Phase 2, and at the end, the         *)
(* recorded swaps, as edges winner -> loser, contain no cycle.             *)
(***************************************************************************)
C1_NoCycle == Acyclic(SwapEdges)

\* reached: the run is over, a swap was recorded and a proposal was refused
\* by would_create_circle
C1_Witness == pc = "done" /\ h2h_swaps # <<>> /\ rejected # {}

(***************************************************************************)
(* C2.  When Phase 1 is over, every school that beat a school of its       *)
(* league head-to-head is ranked above it, unless the cycle check refused  *)
(* the move.  Stated for files that agree with each other.                 *)
(***************************************************************************)
C2_LeagueWinnerAbove ==
  (pc = "phase2" /\ i = 0 /\ FilesAgree) =>
    \A a \in Schools : \A b \in Schools \ {a} :
      (league[a] # NoLeague /\ league[a] = league[b] /\ Beat(a, b)) =>
        (PosOf(a) < PosOf(b) \/ <<a, b>> \in rejected)

(***************************************************************************)
(* C3.  In the final ranking every adjacent pair that is not the (winner,  *)
(* loser) of an applied swap has non-increasing Power Index.  The claim as *)
(* made, stated for files that agree with each other...                    *)
(***************************************************************************)
C3_Original ==
  (pc = "done" /\ FilesAgree) =>
    \A j \in 1..(Len(ranked) - 1) :
      (<<ranked[j], ranked[j + 1]>> \notin SwapEdges) =>
        power_index[ranked[j]] >= power_index[ranked[j + 1]]

SwapWinners == {h2h_swaps[j].winner : j \in DOMAIN h2h_swaps}

\* ... and as amended (C3): in the final ranking every adjacent pair whose
\* upper school is not the winner of any applied swap has non-increasing
\* Power Index.
C3_OrderedBelowNonWinners ==
  pc = "done" =>
    \A j \in 1..(Len(ranked) - 1) :
      (ranked[j] \notin SwapWinners) =>
        power_index[ranked[j]] >= power_index[ranked[j + 1]]

\* reached: a final ranking after two swaps in which a school that won no
\* swap stands right above a school of lower Power Index
C3_Witness ==
  /\ pc = "done"
  /\ Len(h2h_swaps) >= 2
  /\ \E j \in 1..(Len(ranked) - 1) :
       /\ ranked[j] \notin SwapWinners
       /\ power_index[ranked[j]] > power_index[ranked[j + 1]]

(***************************************************************************)
(* C4.  Three schools whose head-to-head results form a cycle (A beat B,   *)
(* B beat C, C beat A), all within swap range of each other.               *)
(***************************************************************************)
InSwapRange(a, b) == Abs(power_index[a] - power_index[b]) < H2H_THRESHOLD

Cycles ==
  {c \in Schools \X Schools \X Schools :
     /\ Cardinality({c[1], c[2], c[3]}) = 3
     /\ Beat(c[1], c[2]) /\ Beat(c[2], c[3]) /\ Beat(c[3], c[1])
     /\ InSwapRange(c[1], c[2]) /\ InSwapRange(c[2], c[3]) /\ InSwapRange(c[3], c[1])}

Upgrades(c) == {<<c[1], c[2]>>, <<c[2], c[3]>>, <<c[3], c[1]>>}

\* The claim as made, stated for files that agree with each other: exactly
\* two of the three upgrades are applied, the third is refused by the cycle
\* check, and the output is a total order of the schools.
C4_Original ==
  (pc = "done" /\ FilesAgree) =>
    \A c \in Cycles :
      /\ Cardinality(Upgrades(c) \cap SwapEdges) = 2
      /\ Upgrades(c) \ SwapEdges \subseteq rejected
      /\ IsPermutation(ranked)

\* As amended (C4): at most two of the three upgrades are applied (none, one
\* or two, by baseline order and league membership; the cycle check need not
\* refuse any), and the output is a total order of the schools.
C4_AtMostTwoUpgrades ==
  pc = "done" =>
    \A c \in Cycles :
      /\ Cardinality(Upgrades(c) \cap SwapEdges) <= 2
      /\ IsPermutation(ranked)

\* reached: a final ranking of three schools in a head-to-head cycle, their
\* files in agreement, two upgrades applied
C4_Witness ==
  /\ pc = "done"
  /\ FilesAgree
  /\ \E c \in Cycles : Cardinality(Upgrades(c) \cap SwapEdges) = 2

(***************************************************************************)
(* C5.  A Phase 2 step at a pair (i, i+1) whose Power Index gap is below   *)
(* 0.02, whose lower school has more head-to-head wins than losses against *)
(* the upper one, and whose swap closes no cycle, swaps the two schools;   *)
(* and in a partition of two schools A, B with gap 0.01 where B beat A     *)
(* once, B ends above A.                                                   *)
(***************************************************************************)
C5_StepSwaps ==
  (/\ pc = "phase2"
   /\ i < Len(ranked) - 1
   /\ Abs(power_index[ranked[i + 1]] - power_index[ranked[i + 2]]) < 2
   /\ Beat(ranked[i + 2], ranked[i + 1])
   /\ ~PathExists(ranked[i + 1], ranked[i + 2], SwapEdges))
  => (/\ ranked'[i + 1] = ranked[i + 2]
      /\ ranked'[i + 2] = ranked[i + 1])

C5_TwoSchools ==
  (pc = "done" /\ Cardinality(Schools) = 2) =>
    \A a \in Schools : \A b \in Schools :
      (/\ power_index[a] - power_index[b] = 1
       /\ H2HOf(b, a).wins = 1 /\ H2HOf(b, a).losses = 0)
      => PosOf(b) < PosOf(a)

C5_GapSwap == [][C5_StepSwaps]_vars /\ []C5_TwoSchools

\* reached: the final ranking of two schools of different leagues, the one
\* of lower Power Index on top by a Statewide swap
C5_Witness ==
  /\ pc = "done"
  /\ Cardinality(Schools) = 2
  /\ \E j \in DOMAIN h2h_swaps :
       /\ h2h_swaps[j].reason = "Statewide"
       /\ power_index[h2h_swaps[j].loser] - power_index[h2h_swaps[j].winner] = 1
       /\ PosOf(h2h_swaps[j].winner) < PosOf(h2h_swaps[j].loser)

(***************************************************************************)
(* C6.  Within every classification the class ranks are 1..k without gaps  *)
(* or repeats, and they follow the state ranks.                            *)
(***************************************************************************)
EntriesOf(c) == {j \in DOMAIN output : output[j].classification = c}

C6_ClassRankRestrictsStateRank ==
  pc = "done" =>
    \A c \in Classes :
      /\ {output[j].class_rank : j \in EntriesOf(c)} = 1..Cardinality(EntriesOf(c))
      /\ \A x \in EntriesOf(c) : \A y \in EntriesOf(c) :
           (output[x].class_rank < output[y].class_rank)
             => output[x].rank < output[y].rank

\* reached: two schools of one classification whose state order is not their
\* Power Index order, and a school of another classification
C6_Witness ==
  /\ pc = "done"
  /\ \E x \in DOMAIN output : \E y \in DOMAIN output : \E z \in DOMAIN output :
       /\ output[x].classification = output[y].classification
       /\ output[z].classification # output[x].classification
       /\ output[x].class_rank < output[y].class_rank
       /\ output[x].power_index < output[y].power_index

(***************************************************************************)
(* Notions the rating properties are stated with.                          *)
(***************************************************************************)
\* the file of school s holds no qualifying dual meet
NoDualMeet(s) == \A j \in DOMAIN files[s] : ~is_dual_match(files[s][j])

\* the schools whose stats hold the given rating
HaveRating(field) == {s \in DOMAIN school_data : school_data[s][field] # Unset}

RatingFields == {"wp", "owp", "oowp", "apr", "normalized_fws", "power_index"}

InUnitInterval(r) == RatLeq(Zero, r) /\ RatLeq(r, One)

\* the sum over the opponents S of the opponent's rating, 1/2 for an opponent
\* that is not a ranked school of the partition
RECURSIVE SumOverOpponents(_, _)
SumOverOpponents(S, field) ==
  IF S = {} THEN Zero
  ELSE LET o == CHOOSE x \in S : TRUE
       IN RatAdd(IF o \in DOMAIN school_data THEN school_data[o][field] ELSE Half,
                 SumOverOpponents(S \ {o}, field))

TimesCount(r, S) == RatMul(r, <<Cardinality(S), 1>>)

(***************************************************************************)
(* C7: a school with zero qualifying dual meets in the partition never     *)
(* appears in the partition's ranking, and it is given no ratings at all   *)
(* (no stats entry, hence no default values).                              *)
(***************************************************************************)
C7_ZeroDualAbsent ==
  \A s \in DOMAIN files :
     NoDualMeet(s) => /\ s \notin DOMAIN school_data
                      /\ s \notin Range(order)
                      /\ s \notin Range(ranked)

\* the ranking is built, a school with a tournament only has its file read,
\* and a ranked school names it as an opponent
C7_Witness ==
  /\ pc = "rated"
  /\ \E s \in DOMAIN raw_data_cache :
       /\ NoDualMeet(s)
       /\ files[s] # <<>>
       /\ \E t \in Range(ranked) : s \in school_data[t].opponents

(***************************************************************************)
(* C8: every school's WP is written before any OWP is computed, every      *)
(* school's OWP before any OOWP, APR or Power Index; no pass reads a       *)
(* rating that was not written, and a written WP or OWP never changes.     *)
(***************************************************************************)
C8_Passes ==
  /\ ~unset_read
  /\ pc # "KeyError"
  /\ (HaveRating("owp") # {} =>
        /\ DOMAIN raw_data_cache = DOMAIN files
        /\ HaveRating("wp") = DOMAIN school_data)
  /\ (HaveRating("oowp") \cup HaveRating("apr") \cup HaveRating("power_index") # {} =>
        HaveRating("owp") = DOMAIN school_data)

C8_Written ==
  \A s \in DOMAIN school_data :
     /\ s \in DOMAIN school_data'
     /\ school_data'[s].wp = school_data[s].wp
     /\ (school_data[s].owp # Unset => school_data'[s].owp = school_data[s].owp)

C8_PassOrder == []C8_Passes /\ [][C8_Written]_vars

\* every school is ranked, and the first school of the passes has an opponent
\* that the passes reach later
C8_Witness ==
  /\ pc = "rated"
  /\ Len(order) = NumTeams
  /\ \E j \in 2..Len(order) : order[j] \in school_data[order[1]].opponents

(***************************************************************************)
(* C9: wp, owp, oowp, apr, fws_normalized and power_index of every ranked  *)
(* school lie in [0,1] (and all are set once the passes are over), with    *)
(* missing flights, ties and unknown opponents among the meets.            *)
(***************************************************************************)
C9_Bounds ==
  /\ \A s \in DOMAIN school_data : \A f \in RatingFields :
        school_data[s][f] # Unset => InUnitInterval(school_data[s][f])
  /\ (pc = "rated" => \A f \in RatingFields : HaveRating(f) = DOMAIN school_data)

\* a ranked school with a tie against an unknown opponent and a flight that
\* was not contested, all its contested flights won; another with every meet won
C9_Witness ==
  /\ pc = "rated"
  /\ \E s \in DOMAIN school_data :
       /\ school_data[s].dual_ties > 0
       /\ UnknownSchool \in school_data[s].opponents
       /\ school_data[s].matches_played > school_data[s].total_flights_played
       /\ school_data[s].normalized_fws = One
  /\ \E t \in DOMAIN school_data : school_data[t].wp = One

(***************************************************************************)
(* C10: OWP of a ranked school is the mean over its opponents of the       *)
(* opponent's WP, 1/2 standing for every opponent that is not a ranked     *)
(* school of the partition (counted, not left out); OOWP is the same mean  *)
(* over the opponents' OWP.                                                *)
(***************************************************************************)
C10_OpponentMeans ==
  \A s \in DOMAIN school_data :
     /\ school_data[s].opponents # {}
     /\ (school_data[s].owp # Unset =>
           TimesCount(school_data[s].owp, school_data[s].opponents)
             = SumOverOpponents(school_data[s].opponents, "wp"))
     /\ (school_data[s].oowp # Unset =>
           TimesCount(school_data[s].oowp, school_data[s].opponents)
             = SumOverOpponents(school_data[s].opponents, "owp"))

\* a ranked school with an unknown opponent and a ranked one whose WP and OWP
\* are not 1/2
C10_Witness ==
  /\ pc = "rated"
  /\ \E s \in DOMAIN school_data :
       /\ UnknownSchool \in school_data[s].opponents
       /\ \E o \in school_data[s].opponents \cap DOMAIN school_data :
            /\ school_data[o].wp # Half
            /\ school_data[o].owp # Half

(***************************************************************************)
(* C11: two runs on identical input give identical output.  The season     *)
(* files determine the baseline: whatever the order in which the files     *)
(* were read, the baseline is the one of the run that reads them in the    *)
(* order of the school ids.                                                *)
(***************************************************************************)
C11_Deterministic ==
  pc = "rated" =>
    ranked = SortedDesc(SetToSeq(DOMAIN school_data), PowerIndexKeys(school_data))

(***************************************************************************)
(* C12: the output of a partition does not depend on the other partitions. *)
(* In a run of three partitions whose first and third have the same input, *)
(* the entries of the first and of the third are the same (ranks, league   *)
(* ranks, boost flags and reasons, class ranks), whatever the second       *)
(* partition holds; and the recorded swaps of the third are the ones of    *)
(* its own pairs.                                                          *)
(***************************************************************************)
\* the entries of partition y, without the field year
EntriesOfYear(y) ==
  LET sel == Concat([j \in DOMAIN output |->
                       IF output[j].year = y THEN <<output[j]>> ELSE <<>>])
  IN [j \in DOMAIN sel |-> [f \in DOMAIN sel[j] \ {"year"} |-> sel[j][f]]]

C12_PartitionIndependent ==
  (pc = "done" /\ Len(partitions) = 3) => EntriesOfYear(1) = EntriesOfYear(3)

\* the second partition has a boosted school and the first has none, or the
\* other way round, and both hold a ranked school of each classification
C12_Witness ==
  /\ pc = "done"
  /\ Len(partitions) = 3
  /\ partitions[1] # partitions[2]
  /\ \E y \in {1, 2} :
       /\ \E j \in DOMAIN EntriesOfYear(y) : EntriesOfYear(y)[j].h2h_boosted
       /\ \A j \in DOMAIN EntriesOfYear(3 - y) : ~EntriesOfYear(3 - y)[j].h2h_boosted
  /\ \E j \in DOMAIN output : output[j].class_rank = PartitionTeams

(***************************************************************************)
(* C13: a school moved upward by an applied Phase 1 bubble or Phase 2 swap *)
(* is recorded as the winner of a swap in that very step, with a reason in *)
(* {League, Statewide, Both}, Both only for a Phase 2 comparison under     *)
(* both conditions; in the output a school is flagged h2h_boosted, with    *)
(* such a reason, exactly when it is the winner of a recorded swap, and a  *)
(* school that no swap moved upward is output unflagged and without reason.*)
(***************************************************************************)
BoostReasons == {"League", "Statewide", "Both"}

\* the swaps a step appends
NewSwaps == {h2h_swaps'[j] : j \in DOMAIN h2h_swaps' \ DOMAIN h2h_swaps}

C13_MoveRecorded ==
  (pc \in {"phase1", "phase2"}) =>
    /\ Len(h2h_swaps') >= Len(h2h_swaps)
    /\ SubSeq(h2h_swaps', 1, Len(h2h_swaps)) = h2h_swaps
    /\ \A t \in Range(ranked) :
         IndexOf(ranked', t) < IndexOf(ranked, t)
           => \E swap \in NewSwaps : swap.winner = t
    /\ \A swap \in NewSwaps :
         /\ IndexOf(ranked', swap.winner) < IndexOf(ranked, swap.winner)
         /\ swap.reason \in BoostReasons
         /\ (swap.reason = "Both" =>
               /\ pc = "phase2"
               /\ condition_a(swap.loser, swap.winner)
               /\ condition_b(swap.loser, swap.winner))

C13_Flags ==
  pc = "done" =>
    \A j \in DOMAIN output :
       LET won == {n \in DOMAIN h2h_swaps : h2h_swaps[n].winner = output[j].school_id}
       IN /\ output[j].h2h_boosted <=> (won # {})
          /\ (won # {} =>
                /\ output[j].h2h_boost_reason \in BoostReasons
                /\ \E n \in won :
                     /\ h2h_swaps[n].reason = output[j].h2h_boost_reason
                     /\ (output[j].h2h_boost_reason = "Both" =>
                           /\ condition_a(h2h_swaps[n].loser, h2h_swaps[n].winner)
                           /\ condition_b(h2h_swaps[n].loser, h2h_swaps[n].winner)))
          /\ (won = {} => output[j].h2h_boost_reason = "None")

C13_BoostFlags == [][C13_MoveRecorded]_vars /\ []C13_Flags

\* two schools boosted for different reasons, one of them Both, and a school
\* that is not boosted
C13_Witness ==
  /\ pc = "done"
  /\ \E x \in DOMAIN output : \E y \in DOMAIN output : \E z \in DOMAIN output :
       /\ output[x].h2h_boost_reason = "Both"
       /\ output[y].h2h_boost_reason = "League"
       /\ ~output[z].h2h_boosted

(***************************************************************************)
(* C14 (Scenario A): school 1 with exactly one dual meet, won over the     *)
(* known school 2 whose WP is 1/2, flights S1, S2, D1 won and S3, S4, D2,  *)
(* D3, D4 lost, is rated fws_normalized = 2.75/3.95, wp = 1, owp = 1/2,    *)
(* oowp = OWP of school 2, apr = wp/4 + owp/2 + oowp/4 and power_index =   *)
(* apr/2 + fws_normalized/2; these are 1/2, 0.625 and 0.3125 + 1.375/3.95  *)
(* when the OWP of school 2 is 1/2.                                        *)
(***************************************************************************)
\* the passes are over and the opponent of school 1 is ranked with WP 1/2
ScenarioAHolds ==
  /\ pc = "rated"
  /\ 2 \in DOMAIN school_data
  /\ school_data[2].wp = Half

\* the statement with oowp = 0.5 whatever the OWP of school 2
C14_Original ==
  ScenarioAHolds =>
    /\ school_data[1].normalized_fws = Rat(275, 395)
    /\ school_data[1].wp = One
    /\ school_data[1].owp = Half
    /\ school_data[1].oowp = Half
    /\ school_data[1].apr = Rat(625, 1000)
    /\ school_data[1].power_index =
         RatAdd(RatMul(Half, Rat(625, 1000)), RatMul(Half, Rat(275, 395)))

C14_ScenarioA ==
  ScenarioAHolds =>
    /\ school_data[1].normalized_fws = Rat(275, 395)
    /\ school_data[1].wp = One
    /\ school_data[1].owp = Half
    /\ school_data[1].oowp = school_data[2].owp
    /\ school_data[1].apr =
         RatAdd(RatAdd(Rat(1, 4), Rat(1, 4)), RatMul(Rat(1, 4), school_data[2].owp))
    /\ school_data[1].power_index =
         RatAdd(RatMul(Half, school_data[1].apr), RatMul(Half, Rat(275, 395)))
    /\ (school_data[2].owp = Half =>
          /\ school_data[1].oowp = Half
          /\ school_data[1].apr = Rat(625, 1000)
          /\ school_data[1].power_index =
               RatAdd(RatMul(Half, Rat(625, 1000)), RatMul(Half, Rat(275, 395))))

\* the scenario with the opponent's OWP at 1/2
C14_Witness == ScenarioAHolds /\ school_data[2].owp = Half

(***************************************************************************)
(* C15: when the top-level record of a school's file is not a season       *)
(* record (it has no 'meets'), the engine stops with an error: once such a *)
(* file is read, the run is in its error state, and it never goes on to    *)
(* rank the partition without the school.                                  *)
(***************************************************************************)
C15_MalformedStops ==
  \A s \in DOMAIN raw_data_cache :
     "meets" \notin DOMAIN raw_data_cache[s] => pc = "error"

(***************************************************************************)
(* C16: is_dual_match(meet) is true exactly when the title contains none   *)
(* of 'State Championship', 'District', 'Tournament', the title is not     *)
(* 'Event' followed by a number, and the winners and the losers are one    *)
(* team each.                                                              *)
(***************************************************************************)
C16_DualMatchIff ==
  pc = "returned" =>
    (output <=> /\ files.title \cap {"State Championship", "District",
                                     "Tournament", "Event <n>"} = {}
                /\ Len(files.winners) = 1
                /\ Len(files.losers) = 1)

(***************************************************************************)
(* C17: would_create_circle(new_winner, new_loser, existing_swaps) returns *)
(* True exactly when new_winner is reachable from new_loser along the      *)
(* winner -> loser edges of existing_swaps, and its loop terminates for    *)
(* every swap list, one whose graph has a cycle included.                  *)
(***************************************************************************)
\* the winner -> loser edges of a swap list
EdgesOf(swaps) == {<<swaps[j].winner, swaps[j].loser>> : j \in DOMAIN swaps}

C17_Result ==
  pc = "returned" =>
    /\ output = PathExists(files.new_loser, files.new_winner,
                           EdgesOf(files.existing_swaps))
    /\ output = would_create_circle(files.new_winner, files.new_loser,
                                    files.existing_swaps)

C17_CircleIffReachable == []C17_Result /\ <>(pc = "returned")

\* True was returned for a path of more than one edge, the swap list having
\* a cycle that the search went into
C17_Witness ==
  /\ pc = "returned"
  /\ output = TRUE
  /\ <<files.new_loser, files.new_winner>> \notin EdgesOf(files.existing_swaps)
  /\ \E t \in search_visited : PathExists(t, t, EdgesOf(files.existing_swaps))

(***************************************************************************)
(* C18: when the cycle check rejects a proposed swap, in Phase 1 or in     *)
(* Phase 2, the ranking order, h2h_swaps and swapped_pairs are left as     *)
(* they were, and processing goes on to the next pair in the same phase.   *)
(***************************************************************************)
\* the Phase 1 item at hand is a proposal (a clear winner ranked below the
\* loser) whose loser already reaches its winner along the recorded swaps
Phase1Rejects ==
  /\ pc = "phase1"
  /\ k >= 1
  /\ k <= Len(league_h2h)
  /\ league_h2h[k].wins > league_h2h[k].losses
  /\ PosOf(league_h2h[k].winner_id) > PosOf(league_h2h[k].loser_id)
  /\ PathExists(league_h2h[k].loser_id, league_h2h[k].winner_id, SwapEdges)

\* the same for the adjacent pair Phase 2 is at
Phase2Rejects ==
  /\ pc = "phase2"
  /\ i < Len(ranked) - 1
  /\ \/ condition_a(ranked[i + 1], ranked[i + 2])
     \/ condition_b(ranked[i + 1], ranked[i + 2])
  /\ should_swap(H2HOf(ranked[i + 2], ranked[i + 1]))
  /\ PathExists(ranked[i + 1], ranked[i + 2], SwapEdges)

C18_Step ==
  /\ (Phase1Rejects \/ Phase2Rejects) =>
       /\ ranked' = ranked
       /\ h2h_swaps' = h2h_swaps
       /\ swapped_pairs' = swapped_pairs
       /\ pc' = pc
  /\ Phase1Rejects => (k' = k + 1 /\ li' = li)
  /\ Phase2Rejects => i' = i + 1

C18_RejectedSwapChangesNothing == [][C18_Step]_vars

\* reached: Phase 2 is at a pair it is about to reject, a proposal having
\* been rejected before, in Phase 1
C18_Witness ==
  /\ Phase2Rejects
  /\ rejected # {}
  /\ h2h_swaps # <<>>
  /\ \A j \in DOMAIN h2h_swaps : h2h_swaps[j].reason = "League"

(***************************************************************************)
(* C19: an applied Phase 1 bubble of winner A (at position w) above loser  *)
(* B (at position l < w) puts A at position l, moves each school formerly  *)
(* at positions l..w-1 down by exactly one position in the same order, and *)
(* leaves every position outside [l, w] as it was.                         *)
(***************************************************************************)
C19_Step ==
  (pc = "phase1" /\ ranked' # ranked) =>
    /\ k >= 1
    /\ k <= Len(league_h2h)
    /\ LET A == league_h2h[k].winner_id
           w == PosOf(A)
           l == PosOf(league_h2h[k].loser_id)
       IN /\ l < w
          /\ Len(ranked') = Len(ranked)
          /\ ranked'[l] = A
          /\ \A p \in l..(w - 1) : ranked'[p + 1] = ranked[p]
          /\ \A p \in DOMAIN ranked : (p < l \/ p > w) => ranked'[p] = ranked[p]

C19_BubbleShiftsBlock == [][C19_Step]_vars

\* reached: the one swap recorded so far took its winner from the last of
\* three positions to the first, over a school that is not its loser
C19_Witness ==
  /\ pc = "phase1"
  /\ Len(ranked) = 3
  /\ Len(h2h_swaps) = 1
  /\ ranked[1] = h2h_swaps[1].winner
  /\ ranked[2] = h2h_swaps[1].loser
  /\ power_index[ranked[2]] > power_index[ranked[3]]
  /\ power_index[ranked[3]] > power_index[ranked[1]]

(***************************************************************************)
(* C20: Phase 2 swaps an adjacent pair only if, when the pair is compared, *)
(* its Power Index gap is below 0.02 or both schools share a non-empty     *)
(* league and their league ranks differ by at most 2; when neither holds   *)
(* the pair is left in place whatever its head-to-head record.             *)
(***************************************************************************)
GapBelowThreshold(s1, s2) ==
  Abs(power_index[s1] - power_index[s2]) < H2H_THRESHOLD

LeagueRanksClose(s1, s2) ==
  /\ league[s1] # NoLeague
  /\ league[s1] = league[s2]
  /\ Abs(school_league_rank[s1] - school_league_rank[s2]) <= H2H_LEAGUE_RANK_THRESHOLD

C20_Step ==
  (pc = "phase2" /\ i < Len(ranked) - 1) =>
    LET s1 == ranked[i + 1]
        s2 == ranked[i + 2]
    IN /\ ranked' # ranked =>
            /\ ranked' = SwapAt(ranked, i + 1, i + 2)
            /\ GapBelowThreshold(s1, s2) \/ LeagueRanksClose(s1, s2)
       /\ (~GapBelowThreshold(s1, s2) /\ ~LeagueRanksClose(s1, s2)) =>
            /\ ranked' = ranked
            /\ h2h_swaps' = h2h_swaps
            /\ swapped_pairs' = swapped_pairs

C20_SwapOnlyUnderConditions == [][C20_Step]_vars

\* reached: the pair Phase 2 has just compared is of one league, more than
\* two league ranks and 0.02 apart, and was left in place although the lower
\* school has the better head-to-head record and no recorded swap stands
\* against it
C20_Witness ==
  /\ pc = "phase2"
  /\ i >= 1
  /\ league[ranked[i]] # NoLeague
  /\ league[ranked[i]] = league[ranked[i + 1]]
  /\ ~GapBelowThreshold(ranked[i], ranked[i + 1])
  /\ ~LeagueRanksClose(ranked[i], ranked[i + 1])
  /\ should_swap(H2HOf(ranked[i + 1], ranked[i]))
  /\ ~PathExists(ranked[i], ranked[i + 1], SwapEdges)

(***************************************************************************)
(* C21: in Phase 2, for an eligible adjacent pair whose head-to-head       *)
(* series has equal wins and losses and at least one meeting played, the   *)
(* lower-ranked school is swapped upward exactly when its flight-weighted  *)
(* score summed over those meetings is strictly greater than that of the   *)
(* higher-ranked school and no cycle would result; equal sums give no      *)
(* swap.                                                                   *)
(***************************************************************************)
\* the flight-weighted score of the school of the file and of its opponent,
\* summed over the meetings of a head-to-head record
FwsOwn(h) == SeqSum([j \in DOMAIN h.matches |-> h.matches[j].fws1])

FwsOther(h) == SeqSum([j \in DOMAIN h.matches |-> h.matches[j].fws2])

\* Phase 2 is at an eligible pair
Phase2Eligible ==
  /\ pc = "phase2"
  /\ i < Len(ranked) - 1
  /\ \/ GapBelowThreshold(ranked[i + 1], ranked[i + 2])
     \/ LeagueRanksClose(ranked[i + 1], ranked[i + 2])

\* the step of Phase 2 swaps the pair at hand exactly when the lower school
\* has the greater sum and the higher school does not reach it along the
\* recorded swaps
SplitStep ==
  LET h == H2HOf(ranked[i + 2], ranked[i + 1])
  IN (ranked' = SwapAt(ranked, i + 1, i + 2) /\ ranked' # ranked)
       <=> (/\ FwsOwn(h) > FwsOther(h)
            /\ ~PathExists(ranked[i + 1], ranked[i + 2], SwapEdges))

C21_Step ==
  (/\ Phase2Eligible
   /\ H2HOf(ranked[i + 2], ranked[i + 1]).wins = H2HOf(ranked[i + 2], ranked[i + 1]).losses
   /\ Len(H2HOf(ranked[i + 2], ranked[i + 1]).matches) >= 1) => SplitStep

C21_SplitSeriesByFws == [][C21_Step]_vars

\* the same for the series with at least one meeting won by each school
C21_WonAndLost_Step ==
  (/\ Phase2Eligible
   /\ H2HOf(ranked[i + 2], ranked[i + 1]).wins = H2HOf(ranked[i + 2], ranked[i + 1]).losses
   /\ H2HOf(ranked[i + 2], ranked[i + 1]).wins >= 1) => SplitStep

C21_WonAndLost == [][C21_WonAndLost_Step]_vars

(***************************************************************************)
(* C22: the tiebreak of a partition with n ranked schools always           *)
(* terminates, also when head-to-head results are non-transitive: Phase 1  *)
(* processes each league's head-to-head pairs once, and Phase 2 compares   *)
(* each adjacent index pair (i, i+1), i = 0..n-2 in increasing order,      *)
(* exactly once and is not repeated.                                       *)
(***************************************************************************)
\* the leagues are taken one after the other and the items of league_h2h
\* one after the other, none twice; Phase 1 is entered from the baseline
\* only
C22_Phase1Once ==
  /\ pc = "phase1" =>
        /\ pc' \in {"phase1", "phase2"}
        /\ league_groups' = league_groups
        /\ \/ li' = li /\ k' = k + 1 /\ pc' = "phase1" /\ li <= Len(league_groups)
              /\ (k >= 1 => (k <= Len(league_h2h) /\ league_h2h' = league_h2h))
           \/ li' = li + 1 /\ k' = 0 /\ pc' = "phase1" /\ li <= Len(league_groups)
              /\ (k >= 1 => k = Len(league_h2h) + 1)
           \/ li' = li /\ pc' = "phase2" /\ li = Len(league_groups) + 1 /\ k = 0
  /\ (pc' = "phase1" /\ pc # "phase1") => (pc = "sort" /\ li' = 1 /\ k' = 0)

\* Phase 2 starts at i = 0, compares the pair (i, i+1) and goes on to i + 1,
\* and is left for the output after i = n - 2, never to be entered again
C22_Phase2Once ==
  /\ pc = "phase2" =>
        \/ pc' = "phase2" /\ i <= Len(ranked) - 2 /\ i' = i + 1
           /\ \A p \in DOMAIN ranked : (p < i + 1 \/ p > i + 2) => ranked'[p] = ranked[p]
        \/ pc' = "output" /\ i = Max({Len(ranked) - 1, 0}) /\ ranked' = ranked
  /\ (pc' = "phase2" /\ pc # "phase2") => (pc = "phase1" /\ i' = 0)

\* the most steps Phase 1 takes for one league: the head-to-head results,
\* one step for every ordered pair of schools, and the step to the next league
LeagueSteps == Cardinality(Schools) * (Cardinality(Schools) - 1) + 2

\* a bound on the steps the tiebreak has yet to take
StepsLeft ==
  CASE pc = "sort" ->
         Cardinality(Schools) * (LeagueSteps + 1) + Cardinality(Schools) + 4
    [] pc = "phase1" ->
         (Len(league_groups) + 1 - li) * LeagueSteps
         + (IF k = 0 THEN 0 ELSE Len(league_h2h) + 2 - k - LeagueSteps)
         + Len(ranked) + 3
    [] pc = "phase2" -> (Len(ranked) - 1 - i) + 3
    [] pc = "output" -> 2
    [] pc = "class" -> 1
    [] OTHER -> 0

\* every step takes the bound down, and the bound is never negative
C22_Step == C22_Phase1Once /\ C22_Phase2Once /\ StepsLeft' < StepsLeft

C22_TiebreakTerminates ==
  /\ [][C22_Step]_vars
  /\ [](StepsLeft >= 0)

\* reached: the run is over for three schools of which each beat one and
\* lost to one, the files in agreement
C22_Witness ==
  /\ pc = "done"
  /\ FilesAgree
  /\ \E a \in Schools : \E b \in Schools : \E c \in Schools :
       Beat(a, b) /\ Beat(b, c) /\ Beat(c, a)

(***************************************************************************)
(* C23: the normalized FWS of a school is the mean, over its dual meets    *)
(* with a flight contested, of points_earned / weight_available, where     *)
(* weight_available is the sum of the weights of the flights contested in  *)
(* the meet and points_earned the sum of the weights of the contested      *)
(* flights the school won: a meet with a flight missing is divided by the  *)
(* weight contested, not by 3.95.                                          *)
(***************************************************************************)
\* the flights of a meet, Singles then Doubles, each with its weight
FlightsOf(meet) ==
  [j \in DOMAIN meet.matches.Singles |->
     [weight |-> get_flight_weight("Singles", meet.matches.Singles[j].flight),
      teams |-> meet.matches.Singles[j].matchTeams]]
  \o [j \in DOMAIN meet.matches.Doubles |->
        [weight |-> get_flight_weight("Doubles", meet.matches.Doubles[j].flight),
         teams |-> meet.matches.Doubles[j].matchTeams]]

Contested(fl) == Len(fl.teams) >= 2

WonBy(fl, s) ==
  \E j \in DOMAIN fl.teams :
    fl.teams[j].isWinner /\ fl.teams[j].players # <<>> /\ fl.teams[j].players[1] = s

WeightAvailable(meet) ==
  SeqSum([j \in DOMAIN FlightsOf(meet) |->
            IF Contested(FlightsOf(meet)[j]) THEN FlightsOf(meet)[j].weight ELSE 0])

PointsEarned(meet, s) ==
  SeqSum([j \in DOMAIN FlightsOf(meet) |->
            IF Contested(FlightsOf(meet)[j]) /\ WonBy(FlightsOf(meet)[j], s)
            THEN FlightsOf(meet)[j].weight ELSE 0])

\* the dual meets of the file of s in which a flight was contested
QualifyingMeets(s) ==
  Concat([j \in DOMAIN files[s] |->
            IF is_dual_match(files[s][j]) /\ WeightAvailable(files[s][j]) > 0
            THEN << files[s][j] >> ELSE <<>>])

\* the mean of the ratios of a list of meets
MeanOfRatios(meets, s) ==
  RatMean([j \in DOMAIN meets |->
             Rat(PointsEarned(meets[j], s), WeightAvailable(meets[j]))])

\* the school a step enters into school_data gets this mean, and no later
\* step changes it
C23_Step ==
  \A s \in DOMAIN school_data' :
    IF s \in DOMAIN school_data
    THEN school_data'[s].normalized_fws = school_data[s].normalized_fws
    ELSE \E meets \in {QualifyingMeets(s)} :
           meets # <<>> => school_data'[s].normalized_fws = MeanOfRatios(meets, s)

C23_FwsIsMeanOfRatios == [][C23_Step]_vars

\* reached: a rated school with two such meets, one with 2.00 of 2.75
\* contested won and one with its only contested flight won, whose
\* normalized FWS is (8/11 + 1) / 2
C23_Witness ==
  /\ pc = "rated"
  /\ \E s \in DOMAIN school_data :
       /\ Len(QualifyingMeets(s)) = 2
       /\ WeightAvailable(QualifyingMeets(s)[1]) = 275
       /\ PointsEarned(QualifyingMeets(s)[1], s) = 200
       /\ WeightAvailable(QualifyingMeets(s)[2]) = 75
       /\ school_data[s].normalized_fws = <<19, 22>>

(***************************************************************************)
(* C24: for every ranked entry, fws_plus equals round(fws_pct / A * 100),  *)
(* A being the average fws_pct of the entries of its group, so that a team *)
(* at the group average gets 100 and a team that won no flight does not.   *)
(***************************************************************************)
\* the average fws_pct over all the entries of the group, as <<sum, count>>
GroupAverage == <<SeqSum([j \in DOMAIN output |-> output[j].fws_pct]), Len(output)>>

C24_FwsPlus ==
  (pc = "returned" /\ GroupAverage[1] > 0) =>
    \A j \in DOMAIN output :
      /\ output[j].fws_plus =
           RoundHalfEven(output[j].fws_pct * 100 * GroupAverage[2], GroupAverage[1])
      /\ output[j].fws_pct = 0 => output[j].fws_plus # 100

(***************************************************************************)
(* C25: in spider_schools, every school fetch that had to go to the API    *)
(* (was not served from the cache file) is counted in api_requests and is  *)
(* followed by a REQUEST_DELAY sleep before the next school is fetched, so *)
(* no two API requests are issued without a delay between them.            *)
(***************************************************************************)
Requests == {j \in DOMAIN events : events[j] = "request"}

C25_RequestsCountedAndSpaced ==
  /\ api_requests = Cardinality(Requests)
  /\ \A a \in Requests : \A b \in Requests :
       a < b => \E c \in (a + 1)..(b - 1) : events[c] = "sleep"

(***************************************************************************)
(* C26: for any two schools of one league in the output of a partition,    *)
(* the one with the smaller league_rank has the smaller (better) final     *)
(* state rank: league_rank is the position among the schools of the league *)
(* in the state rank order that is output.                                 *)
(***************************************************************************)
C26_LeagueRankFollowsStateRank ==
  pc = "done" =>
    \A x \in DOMAIN output : \A y \in DOMAIN output :
      (/\ output[x].league # NoLeague
       /\ output[x].league = output[y].league
       /\ output[x].league_rank < output[y].league_rank)
        => output[x].rank < output[y].rank

(***************************************************************************)
(* C27: in the final ranking of a partition, for every swap recorded in    *)
(* h2h_swaps (in Phase 1 or Phase 2), the winner of the swap is ranked     *)
(* above its loser; no later bubble or swap puts the loser of an applied   *)
(* swap back above its winner.                                             *)
(***************************************************************************)
\* stated for every point of the tiebreak from the recording of the swap on,
\* the final ranking included
C27_SwapWinnerStaysAbove ==
  \A j \in DOMAIN h2h_swaps :
    PosOf(h2h_swaps[j].winner) < PosOf(h2h_swaps[j].loser)

\* reached: a final ranking with a swap of Phase 1 and a later swap of
\* Phase 2 won by another school, a proposal having been refused by the
\* cycle check
C27_Witness ==
  /\ pc = "done"
  /\ rejected # {}
  /\ \E a \in DOMAIN h2h_swaps : \E b \in DOMAIN h2h_swaps :
       /\ a < b
       /\ h2h_swaps[a].reason = "League"
       /\ h2h_swaps[b].reason # "League"
       /\ h2h_swaps[a].winner # h2h_swaps[b].winner

(***************************************************************************)
(* C28: after the baseline sort and after every Phase 1 bubble and Phase 2 *)
(* swap, the ranking is a permutation of exactly the schools of the        *)
(* partition with data: each school occupies one position, none is dropped *)
(* or duplicated, and the output state ranks are 1..n.                     *)
(***************************************************************************)
C28_RankingIsPermutation ==
  /\ pc # "sort" =>
        /\ Len(ranked) = Cardinality(Schools)
        /\ \A t \in Schools : Cardinality({p \in DOMAIN ranked : ranked[p] = t}) = 1
  /\ pc \in {"class", "done"} =>
        /\ Len(output) = Cardinality(Schools)
        /\ \A p \in DOMAIN output :
             output[p].rank = p /\ output[p].school_id = ranked[p]

\* reached: a final ranking of three schools after a bubble and a swap, the
\* school first in the baseline now last
C28_Witness ==
  /\ pc = "done"
  /\ Len(ranked) = 3
  /\ Len(h2h_swaps) >= 2
  /\ \E j \in DOMAIN h2h_swaps : h2h_swaps[j].reason = "League"
  /\ \E j \in DOMAIN h2h_swaps : h2h_swaps[j].reason # "League"
  /\ ranked[3] = InitialSort[1]

(***************************************************************************)
(* C29: during Phase 2 a school is moved upward by at most one position in *)
(* total and is the winner of at most one Phase 2 swap: once a school has  *)
(* been swapped up at index i it is not compared again in that pass, while *)
(* the school it displaced is compared next with the school at i+2 and may *)
(* be moved down repeatedly.                                               *)
(***************************************************************************)
\* Phase 1 as a function of the input: what one item of league_h2h, the items
\* of one league and the leagues one after the other make of the ranking and
\* the swap list
Phase1Item(st, item) ==
  LET winner_pos == IndexOf(st.ranked, item.winner_id)
      loser_pos == IndexOf(st.ranked, item.loser_id)
      applied == /\ item.wins > item.losses
                 /\ winner_pos > loser_pos
                 /\ ~PathExists(item.loser_id, item.winner_id,
                                {<<st.h2h_swaps[j].winner, st.h2h_swaps[j].loser>> :
                                   j \in DOMAIN st.h2h_swaps})
      fresh == \A j \in DOMAIN st.h2h_swaps :
                 <<st.h2h_swaps[j].winner, st.h2h_swaps[j].loser>>
                   # <<item.winner_id, item.loser_id>>
  IN [ranked |-> IF applied
                 THEN SubSeq(st.ranked, 1, loser_pos - 1) \o << item.winner_id >>
                      \o SubSeq(st.ranked, loser_pos, winner_pos - 1)
                      \o SubSeq(st.ranked, winner_pos + 1, Len(st.ranked))
                 ELSE st.ranked,
      h2h_swaps |-> IF applied /\ fresh
                    THEN Append(st.h2h_swaps,
                                SwapRecord(item.winner_id, item.loser_id,
                                           item.wins, item.losses, "League"))
                    ELSE st.h2h_swaps]

RECURSIVE Phase1Items(_, _)
Phase1Items(st, items) ==
  IF items = <<>> THEN st
  ELSE Phase1Items(Phase1Item(st, Head(items)), Tail(items))

RECURSIVE Phase1Leagues(_, _)
Phase1Leagues(st, groups) ==
  IF groups = <<>> THEN st
  ELSE Phase1Leagues(IF Len(Head(groups).teams) < 2 THEN st
                     ELSE Phase1Items(st, LeagueH2H(Head(groups).teams)),
                     Tail(groups))

\* the ranking and the swap list Phase 2 starts from
Phase2Start ==
  Phase1Leagues([ranked |-> InitialSort, h2h_swaps |-> <<>>], LeagueGroups(InitialSort))

\* the swaps recorded by Phase 2 so far
Phase2Swaps(start) ==
  {j \in DOMAIN h2h_swaps : j > Len(start.h2h_swaps)}

C29_UpAtMostOnce ==
  pc \in {"phase2", "output"} =>
    \E start \in {Phase2Start} :
      /\ (i = 0 => (ranked = start.ranked /\ h2h_swaps = start.h2h_swaps))
      /\ \A t \in Schools :
           /\ IndexOf(start.ranked, t) - PosOf(t) <= 1
           /\ Cardinality({j \in Phase2Swaps(start) : h2h_swaps[j].winner = t}) <= 1
           /\ (\E j \in Phase2Swaps(start) : h2h_swaps[j].winner = t)
                => (PosOf(t) <= i /\ IndexOf(start.ranked, t) - PosOf(t) = 1)

\* a step of Phase 2 leaves the positions already passed alone, and after a
\* swap the displaced school is the upper school of the next pair
C29_Step ==
  (pc = "phase2" /\ pc' = "phase2") =>
    /\ \A p \in 1..i : ranked'[p] = ranked[p]
    /\ ranked' # ranked =>
         /\ ranked'[i + 1] = ranked[i + 2]
         /\ ranked'[i' + 1] = ranked[i + 1]

C29_Phase2UpByOne == []C29_UpAtMostOnce /\ [][C29_Step]_vars

\* reached: Phase 2 is over and has moved a school down by two positions,
\* past two schools swapped up by one each
C29_Witness ==
  /\ pc = "output"
  /\ \E t \in Schools : PosOf(t) - IndexOf(Phase2Start.ranked, t) = 2
  /\ Cardinality(Phase2Swaps(Phase2Start)) = 2

(***************************************************************************)
(* C30: every school output with h2h_boosted = true has a final state rank *)
(* strictly better (smaller) than its position in the baseline Power Index *)
(* order; a boosted school is never left at or below its baseline position *)
(* by later bubbles or swaps.                                              *)
(***************************************************************************)
C30_BoostedRanksAboveBaseline ==
  pc = "done" =>
    \A j \in DOMAIN output :
      output[j].h2h_boosted =>
        output[j].rank < IndexOf(InitialSort, output[j].school_id)

====
